---- MODULE Spec2Model ----
(***************************************************************************)
(* libspecbleach: the STFT streaming frontend, the 2-D (NLM) denoiser      *)
(* handle with its frame callback, the multi-mode noise profile and the    *)
(* public entry points of the three processor families.                    *)
(*                                                                         *)
(* Representation.  C arrays are functions over 0..n-1.  A time-domain     *)
(* sample is an integer.  The external FFT library (FFTW r2r) is a linear  *)
(* bijection between a frame and its packed half-spectrum; the model       *)
(* carries the packed array of a frame as the array of the frame itself,   *)
(* so a spectrum identifies the frame it was computed from.  The per-bin   *)
(* gains of the mixer and the window weights are kept symbolic: a          *)
(* synthesised sample is a term [v, w, mix] (value, window position, how   *)
(* the frame was mixed) and an overlap-add slot is the sequence of the     *)
(* terms added into it.  Noise-profile values are exact rationals <<n,d>>. *)
(***************************************************************************)
EXTENDS Integers, Sequences, FiniteSets, TLC

VARIABLES handle,  \* the library handle (NULL or the processor with all it owns)
          fed,     \* number of input samples consumed so far
          outs,    \* every output sample written so far, in order
          frames,  \* one record per frame callback, in order
          loads,   \* number of parameter / profile operations so far
          base,    \* handle and sample count at the last configuration change
          call     \* the last public call: arguments and result

vars == <<handle, fed, outs, frames, loads, base, call>>

\* a null pointer; pointers to live objects are records or arrays
NULL == [null |-> TRUE]

(***************************************************************************)
(* Bounds of the model                                                     *)
(***************************************************************************)
MaxSamples == 10      \* input samples fed to the streaming handle
MaxBlock == 3         \* largest block of one process call (hop + 1)
MaxLoads == 2         \* load_parameters calls in one run
MaxProfileOps == 2    \* profile operations in one run of SpecProfile
MaxValue == 2         \* largest value of a loaded profile element
MaxFrames == 7        \* frames handed to the frame callbacks in SpecFrames
MaxCalls == 2         \* parameter and profile calls in one run of SpecFrames
MaxPushes == 10       \* frames pushed into the NLM filter in SpecNlm
MaxEstimatorOps == 4  \* calls made on one adaptive estimator in SpecEstimators
MaxRuns == 3          \* of them, runs on a frame that is not silent
\* largest denominator of an estimator value that a further frame is run on;
\* keeps the exact rationals within the integer range of the checker
MaxDenominator == 1000
\* sub-window geometry of the minimum-statistics estimator; the library
\* uses sub-windows of 24 frames and a history of 8 sub-windows
MARTIN_SUBWIN_LEN == 2
MARTIN_SUBWIN_COUNT == 2
\* frames of history of the trimmed-mean estimator (the library keeps 16 or
\* more)
BrandtHistory == 2
\* NLM search range in frames; the library ships 16 past / 4 future frames,
\* the model runs a shorter ring so that the ring fills within MaxSamples.
NLM_SEARCH_RANGE_TIME_PAST == 2
NLM_SEARCH_RANGE_TIME_FUTURE == 2

\* configuration of the streaming handle: frame of 8 samples, hop of 2
StreamConfig == [sample_rate |-> 1000, frame_ms |-> 8]
\* configuration of the handle of the profile specification: 4 bins
ProfileConfig == [sample_rate |-> 1000, frame_ms |-> 4]

(***************************************************************************)
(* Program constants                                                       *)
(***************************************************************************)
OVERLAP_FACTOR_GENERAL == 4
OVERLAP_FACTOR_SPEECH == 2
MIN_NUMBER_OF_WINDOWS_NOISE_AVERAGED == 5
NUMBER_OF_MEDIAN_SPECTRUM == 5
\* patch of the NLM filter as the filter tests configure it with a 2 / 2
\* search range (the library default is 8 with 16 / 4)
NLM_PATCH_SIZE == 4
NOISE_PROFILE_MODES == 3
ROLLING_MEAN == 1
MEDIAN == 2
MAX == 3
DELAY_BUFFER_FRAMES == NLM_SEARCH_RANGE_TIME_FUTURE + 1

(***************************************************************************)
(* Helpers: arrays and exact rationals                                     *)
(***************************************************************************)
\* calloc'ed array of n elements.  An array of more than 2^16 elements (a
\* size that wrapped around) is carried without its elements.
Filled(n, v) == [i \in 0..((IF n >= 0 /\ n <= 65536 THEN n ELSE 0) - 1) |-> v]

\* uint32_t arithmetic on 32-bit patterns (a value of 2^31 or more is the
\* negative integer with the same bits); Half is 2^30
Half == 32768 * 32768

Add32(a, b) ==
  IF (a >= 0) # (b >= 0) THEN a + b
  ELSE IF a >= 0
  THEN LET r == (a - Half) + (b - Half)
       IN IF r >= 0 THEN (r - Half) - Half ELSE (r + Half) + Half
  ELSE LET r == (a + Half) + (b + Half)
       IN IF r < 0 THEN (r + Half) + Half ELSE (r - Half) - Half

Sub32(a, b) ==
  IF (a >= 0) = (b >= 0) THEN a - b
  ELSE IF a >= 0
  THEN LET r == (a - Half) - (b + Half)
       IN IF r < 0 THEN (r + Half) + Half ELSE (r - Half) - Half
  ELSE LET r == (a + Half) - (b - Half)
       IN IF r >= 0 THEN (r - Half) - Half ELSE (r + Half) + Half

RECURSIVE Mul32(_, _)
Mul32(n, x) == IF n = 0 THEN 0 ELSE Add32(Mul32(n - 1, x), x)

\* unsigned division of a 32-bit pattern by k, k dividing 2^30
UDiv(u, k) == IF u >= 0 THEN u \div k
              ELSE ((Half \div k) * 2 + (u \div k)) + (Half \div k) * 2

Abs(x) == IF x < 0 THEN -x ELSE x

RECURSIVE GCD(_, _)
GCD(a, b) == IF b = 0 THEN a ELSE GCD(b, a % b)

Rat(n, d) == LET g == GCD(Abs(n), d) IN IF g = 0 THEN <<0, 1>> ELSE <<n \div g, d \div g>>
RInt(n) == <<n, 1>>
RLess(a, b) == a[1] * b[2] < b[1] * a[2]
RMax(a, b) == IF RLess(a, b) THEN b ELSE a
\* sum over the least common denominator
RAdd(a, b) == LET g == GCD(a[2], b[2]) IN Rat(a[1] * (b[2] \div g) + b[1] * (a[2] \div g), (a[2] \div g) * b[2])
RMul(a, b) == Rat(a[1] * b[1], a[2] * b[2])
RMin(a, b) == IF RLess(b, a) THEN b ELSE a
RLeq(a, b) == ~RLess(b, a)
ROne == RInt(1)
RSub(a, b) == RAdd(a, RMul(RInt(-1), b))

(***************************************************************************)
(* general_utils.c                                                         *)
(***************************************************************************)
\* C integer division truncates toward zero
CDiv(a, b) == IF a >= 0 THEN a \div b ELSE -((-a) \div b)

get_next_divisible_two(number) ==
  LET q == CDiv(number, 2)
      n1 == 2 * q
      n2 == IF number * 2 > 0 THEN 2 * (q + 1) ELSE 2 * (q - 1)
  IN IF Abs(number - n1) < Abs(number - n2) THEN n1 ELSE n2

(***************************************************************************)
(* fft_transform.c (NO_PADDING configuration)                              *)
(***************************************************************************)
\* A uint32_t is carried as its 32-bit pattern read as an int, so that
\* (int)self->frame_size and the cast back are both the identity on it.
fft_transform_initialize(frame_size) ==
  LET fft_size == get_next_divisible_two(frame_size)
  IN [fft_size |-> fft_size,
      frame_size |-> frame_size,
      copy_position |-> Sub32(UDiv(fft_size, 2), UDiv(frame_size, 2))]

get_fft_real_spectrum_size(fft) == UDiv(fft.fft_size, 2) + 1

\* fft_load_input_samples, window, forward transform: the packed spectrum of
\* the frame held by the buffer block
AnalyseFrame(fft, block) ==
  [bins |-> [i \in 0..(fft.fft_size - 1) |->
               IF i >= fft.copy_position /\ i < fft.frame_size + fft.copy_position
               THEN block[i - fft.copy_position] ELSE 0],
   mix |-> "none"]

\* backward transform, output window, fft_get_output_samples: tmp_buffer
SynthesiseFrame(fft, spectrum) ==
  [i \in 0..(fft.frame_size - 1) |->
     [v |-> spectrum.bins[i + fft.copy_position],
      w |-> i + fft.copy_position,
      mix |-> spectrum.mix]]

(***************************************************************************)
(* stft_buffer.c                                                           *)
(***************************************************************************)
stft_buffer_initialize(stft_frame_size, start_position, block_step) ==
  [stft_frame_size |-> stft_frame_size,
   start_position |-> start_position,
   block_step |-> block_step,
   read_position |-> start_position,
   in_fifo |-> Filled(stft_frame_size, 0),
   out_fifo |-> Filled(stft_frame_size, <<>>)]

is_buffer_full(b) == b.read_position >= b.stft_frame_size

\* returns the buffer after the write and the output sample popped
stft_buffer_fill(b, input_sample) ==
  [buffer |-> [b EXCEPT !.in_fifo[b.read_position] = input_sample,
                        !.read_position = b.read_position + 1],
   sample |-> b.out_fifo[b.read_position - b.start_position]]

get_full_buffer_block(b) == b.in_fifo

stft_buffer_advance_block(b, reconstructed_signal) ==
  [b EXCEPT !.read_position = b.start_position,
            !.in_fifo = [i \in 0..(b.stft_frame_size - 1) |->
                           IF i < b.start_position
                           THEN b.in_fifo[i + b.block_step] ELSE b.in_fifo[i]],
            !.out_fifo = [i \in 0..(b.stft_frame_size - 1) |->
                            IF i < b.block_step
                            THEN reconstructed_signal[i] ELSE b.out_fifo[i]]]

(***************************************************************************)
(* stft_processor.c                                                        *)
(***************************************************************************)
\* (uint32_t)((stft_frame_size / 1000.F) * (float)sample_rate), line 53.
\* The conversion of a negative float is undefined: conv names what the build
\* does with it, "saturate" (0) or "wrap" (the low 32 bits).
FrameSamples(sample_rate, stft_frame_size, conv) ==
  LET p == stft_frame_size * sample_rate
  IN IF p >= 0 THEN p \div 1000
     ELSE IF (-p) \div 1000 = 0 \/ conv = "saturate" THEN 0
     ELSE -((-p) \div 1000)

stft_processor_initialize_LongStart(sample_rate, stft_frame_size, overlap_factor, conv) ==
  LET frame_size == FrameSamples(sample_rate, stft_frame_size, conv)
      fft == fft_transform_initialize(frame_size)
      hop == UDiv(frame_size, overlap_factor)
      input_latency == Sub32(frame_size, hop) - 1
  IN [frame_size |-> frame_size,
      fft_transform |-> fft,
      fft_size |-> fft.fft_size,
      overlap_factor |-> overlap_factor,
      hop |-> hop,
      input_latency |-> input_latency,
      output_accumulator |-> Filled(frame_size * 2, <<>>),
      stft_buffer |-> stft_buffer_initialize(frame_size, input_latency, hop)]

stft_processor_initialize(sample_rate, stft_frame_size, overlap_factor, conv) ==
  LET frame_size == FrameSamples(sample_rate, stft_frame_size, conv)
      fft == fft_transform_initialize(frame_size)
      hop == UDiv(frame_size, overlap_factor)
      input_latency == Sub32(frame_size, hop)
  IN [frame_size |-> frame_size,
      fft_transform |-> fft,
      fft_size |-> fft.fft_size,
      overlap_factor |-> overlap_factor,
      hop |-> hop,
      input_latency |-> input_latency,
      output_accumulator |-> Filled(frame_size * 2, <<>>),
      stft_buffer |-> stft_buffer_initialize(frame_size, input_latency, hop)]

get_stft_latency(self) == self.input_latency
get_stft_fft_size(self) == self.fft_size
get_stft_real_spectrum_size(self) == get_fft_real_spectrum_size(self.fft_transform)

\* lines 122-130: overlap-add of tmp_buffer, hand the accumulator to the
\* buffer, shift the accumulator by hop
OverlapAdd(self, tmp_buffer) ==
  LET acc == [k \in 0..(self.frame_size * 2 - 1) |->
                IF k < self.frame_size
                THEN Append(self.output_accumulator[k], tmp_buffer[k])
                ELSE self.output_accumulator[k]]
  IN [self EXCEPT
        !.stft_buffer = stft_buffer_advance_block(self.stft_buffer, acc),
        !.output_accumulator =
           [k \in 0..(self.frame_size * 2 - 1) |->
              IF k < self.frame_size THEN acc[k + self.hop] ELSE acc[k]]]

(***************************************************************************)
(* noise_profile.c                                                         *)
(***************************************************************************)
Modes == 0..(NOISE_PROFILE_MODES - 1)

noise_profile_initialize(size) ==
  [noise_profile_size |-> size,
   noise_profile_blocks_averaged |-> [i \in Modes |-> 0],
   noise_spectrum_available |-> [i \in Modes |-> FALSE],
   noise_profiles |-> [i \in Modes |-> Filled(size, RInt(0))]]

is_noise_estimation_available(self, mode) ==
  IF mode < 1 \/ mode > 3 THEN FALSE
  ELSE self.noise_spectrum_available[mode - 1]

get_noise_profile(self, mode) ==
  IF mode < 1 \/ mode > 3 THEN NULL ELSE self.noise_profiles[mode - 1]

get_noise_profile_size(self) == self.noise_profile_size

get_noise_profile_blocks_averaged(self, mode) ==
  IF mode < 1 \/ mode > 3 THEN 0
  ELSE self.noise_profile_blocks_averaged[mode - 1]

set_noise_profile_available(self, mode) ==
  IF mode >= 1 /\ mode <= 3
  THEN [self EXCEPT !.noise_spectrum_available[mode - 1] = TRUE]
  ELSE self

\* a caller's array is NULL or [data |-> the floats]
\* the copy lands one slot too far: index = mode instead of mode - 1
set_noise_profile_WrongSlot(self, mode, profile, size, blocks) ==
  IF self = NULL \/ mode < 1 \/ mode > 3 \/ profile = NULL
     \/ size # self.noise_profile_size
  THEN [profile |-> self, ret |-> FALSE]
  ELSE LET index == mode % NOISE_PROFILE_MODES
       IN [profile |-> [self EXCEPT
                          !.noise_profiles[index] =
                             [k \in DOMAIN @ |->
                                IF k < size THEN profile.data[k] ELSE @[k]],
                          !.noise_profile_blocks_averaged[index] = blocks,
                          !.noise_spectrum_available[index] = TRUE],
           ret |-> TRUE]

\* the availability flag is raised for every mode, not only the loaded one
set_noise_profile_MarksAll(self, mode, profile, size, blocks) ==
  IF self = NULL \/ mode < 1 \/ mode > 3 \/ profile = NULL
     \/ size # self.noise_profile_size
  THEN [profile |-> self, ret |-> FALSE]
  ELSE LET index == mode - 1
       IN [profile |-> [self EXCEPT
                          !.noise_profiles[index] =
                             [k \in DOMAIN @ |->
                                IF k < size THEN profile.data[k] ELSE @[k]],
                          !.noise_profile_blocks_averaged[index] = blocks,
                          !.noise_spectrum_available = [i \in Modes |-> TRUE]],
           ret |-> TRUE]

set_noise_profile(self, mode, profile, size, blocks) ==
  IF self = NULL \/ mode < 1 \/ mode > 3 \/ profile = NULL
     \/ size # self.noise_profile_size
  THEN [profile |-> self, ret |-> FALSE]
  ELSE LET index == mode - 1
       IN [profile |-> [self EXCEPT
                          !.noise_profiles[index] =
                             [k \in DOMAIN @ |->
                                IF k < size THEN profile.data[k] ELSE @[k]],
                          !.noise_profile_blocks_averaged[index] = blocks,
                          !.noise_spectrum_available[index] = TRUE],
           ret |-> TRUE]

\* the flag is recomputed from the count on every increment
increment_blocks_averaged_Recomputes(self, mode) ==
  IF self = NULL \/ mode < 1 \/ mode > 3 THEN self
  ELSE LET index == mode - 1
           n == self.noise_profile_blocks_averaged[index] + 1
       IN [self EXCEPT
             !.noise_profile_blocks_averaged[index] = n,
             !.noise_spectrum_available[index] =
                (n > MIN_NUMBER_OF_WINDOWS_NOISE_AVERAGED)]

increment_blocks_averaged(self, mode) ==
  IF self = NULL \/ mode < 1 \/ mode > 3 THEN self
  ELSE LET index == mode - 1
           n == self.noise_profile_blocks_averaged[index] + 1
       IN [self EXCEPT
             !.noise_profile_blocks_averaged[index] = n,
             !.noise_spectrum_available[index] =
                (n > MIN_NUMBER_OF_WINDOWS_NOISE_AVERAGED) \/ @]

\* the blocks_averaged counts survive the reset
reset_noise_profile_KeepsCounts(self) ==
  [self EXCEPT
     !.noise_profiles = [i \in Modes |-> Filled(self.noise_profile_size, RInt(0))],
     !.noise_spectrum_available = [i \in Modes |-> FALSE]]

reset_noise_profile(self) ==
  [self EXCEPT
     !.noise_profiles = [i \in Modes |-> Filled(self.noise_profile_size, RInt(0))],
     !.noise_profile_blocks_averaged = [i \in Modes |-> 0],
     !.noise_spectrum_available = [i \in Modes |-> FALSE]]

(***************************************************************************)
(* spectral_utils.c, spectral_trailing_buffer.c, spectral_features.c       *)
(***************************************************************************)
\* bins 1..spectrum_size-1 only, as the loop of the source
get_rolling_mean_spectrum(averaged, current, number_of_blocks, spectrum_size) ==
  [k \in DOMAIN averaged |->
     IF k >= 1 /\ k < spectrum_size
     THEN IF number_of_blocks <= 1 THEN RInt(current[k])
          ELSE Rat(averaged[k][1] * (number_of_blocks - 1)
                     + current[k] * averaged[k][2],
                   averaged[k][2] * number_of_blocks)
     ELSE averaged[k]]

\* qsort + find_median of an odd number of blocks: the middle element
find_median(column) ==
  CHOOSE v \in {column[j] : j \in DOMAIN column} :
    /\ 2 * Cardinality({j \in DOMAIN column : column[j] < v}) < Cardinality(DOMAIN column)
    /\ 2 * Cardinality({j \in DOMAIN column : column[j] > v}) < Cardinality(DOMAIN column)

get_rolling_median_spectrum(median_spectrum, buffer, spectrum_size) ==
  [i \in DOMAIN median_spectrum |->
     IF i >= 1 /\ i < spectrum_size
     THEN RMax(median_spectrum[i],
               RInt(find_median([j \in 1..Len(buffer) |-> buffer[j][i]])))
     ELSE median_spectrum[i]]

max_spectrum(spectrum_one, spectrum_two, spectrum_size) ==
  [k \in DOMAIN spectrum_one |->
     IF k < spectrum_size THEN RMax(spectrum_one[k], RInt(spectrum_two[k]))
     ELSE spectrum_one[k]]

spectral_trailing_buffer_initialize(real_spectrum_size, buffer_size) ==
  [j \in 1..buffer_size |-> Filled(real_spectrum_size, 0)]

spectral_trailing_buffer_push_back(buffer, input_spectrum) ==
  Append(Tail(buffer), input_spectrum)

\* compute_power_spectrum over the packed array: real part at k, imaginary
\* part at n - k
get_spectral_feature(bins, fft_size) ==
  LET n2 == fft_size \div 2
  IN [k \in 0..n2 |->
        IF k = 0 THEN bins[0] * bins[0]
        ELSE IF k < n2 THEN bins[k] * bins[k] + bins[fft_size - k] * bins[fft_size - k]
        ELSE IF fft_size % 2 = 0 THEN bins[n2] * bins[n2] ELSE 0]

(***************************************************************************)
(* noise_estimator.c                                                       *)
(***************************************************************************)
noise_estimation_initialize(fft_size) ==
  [fft_size |-> fft_size,
   real_spectrum_size |-> UDiv(fft_size, 2) + 1,
   median_buffer |-> spectral_trailing_buffer_initialize(UDiv(fft_size, 2) + 1,
                                                         NUMBER_OF_MEDIAN_SPECTRUM)]

\* the estimator and the profile it writes, after one frame of one mode
noise_estimation_run(self, np, type, signal_spectrum) ==
  LET profile == get_noise_profile(np, type)
  IN CASE type = ROLLING_MEAN ->
            [estimator |-> self,
             profile |-> increment_blocks_averaged(
                [np EXCEPT !.noise_profiles[type - 1] =
                   get_rolling_mean_spectrum(profile, signal_spectrum,
                      get_noise_profile_blocks_averaged(np, type),
                      self.real_spectrum_size)], type)]
       [] type = MEDIAN ->
            LET buf == spectral_trailing_buffer_push_back(self.median_buffer,
                                                          signal_spectrum)
            IN [estimator |-> [self EXCEPT !.median_buffer = buf],
                profile |-> set_noise_profile_available(
                   [np EXCEPT !.noise_profiles[type - 1] =
                      get_rolling_median_spectrum(profile, buf,
                                                  self.real_spectrum_size)], type)]
       [] type = MAX ->
            [estimator |-> self,
             profile |-> set_noise_profile_available(
                [np EXCEPT !.noise_profiles[type - 1] =
                   max_spectrum(profile, signal_spectrum,
                                self.real_spectrum_size)], type)]
       [] OTHER -> [estimator |-> self, profile |-> np]

(***************************************************************************)
(* nlm_filter.c: ring of SNR frames                                        *)
(***************************************************************************)
\* a calloc-ed SNR value; an SNR is the quotient num / den
ZeroSnr == [num |-> 0, den |-> RInt(1)]
\* the divisor that replaces a noise value not above FLT_MIN
SPECTRAL_EPSILON == <<1, 1000000000>>

nlm_filter_initialize(config) ==
  [config |-> config,
   frame_buffer |-> [i \in 0..(config.time_buffer_size - 1) |->
                       Filled(config.spectrum_size, ZeroSnr)],
   buffer_head |-> 0,
   frames_filled |-> 0]

nlm_filter_push_frame(filter, snr_frame) ==
  [filter EXCEPT
     !.frame_buffer[filter.buffer_head] = snr_frame,
     !.buffer_head = (filter.buffer_head + 1) % filter.config.time_buffer_size,
     !.frames_filled = IF @ < filter.config.time_buffer_size THEN @ + 1 ELSE @]

nlm_filter_is_ready(filter) ==
  filter.frames_filled >= filter.config.time_buffer_size

\* index of get_frame(filter, relative_offset) in the ring
get_frame_index(filter, relative_offset) ==
  (filter.buffer_head - filter.config.search_range_time_future - 1
     + relative_offset) % filter.config.time_buffer_size

get_frame(filter, relative_offset) ==
  filter.frame_buffer[get_frame_index(filter, relative_offset)]

nlm_filter_get_latency_frames(filter) ==
  IF filter = NULL THEN 0 ELSE filter.config.search_range_time_future

\* nlm_filter_process: not ready -> false, output untouched; ready -> the
\* smoothed SNR, a weighted mean around the target frame get_frame(0) over the
\* candidate frames get_frame(-past) .. get_frame(+future)
nlm_filter_process(filter, smoothed_snr) ==
  IF ~nlm_filter_is_ready(filter)
  THEN [ret |-> FALSE, smoothed_snr |-> smoothed_snr]
  ELSE [ret |-> TRUE,
        smoothed_snr |->
          [target |-> get_frame(filter, 0),
           candidates |->
             [dt \in (-filter.config.search_range_time_past)
                       ..filter.config.search_range_time_future |->
                get_frame(filter, dt)]]]

\* the fill count survives the reset
nlm_filter_reset_KeepsFill(filter) ==
  [filter EXCEPT
     !.frame_buffer = [i \in DOMAIN @ |-> Filled(filter.config.spectrum_size,
                                                  ZeroSnr)],
     !.buffer_head = 0]

nlm_filter_reset(filter) ==
  [filter EXCEPT
     !.frame_buffer = [i \in DOMAIN @ |-> Filled(filter.config.spectrum_size,
                                                  ZeroSnr)],
     !.buffer_head = 0,
     !.frames_filled = 0]

\* compute_patch_distance: the relative offsets given to get_frame for the
\* rows of the patch around the frame at offset time
PatchRowOffsets(filter, time) ==
  {time + dt - (filter.config.patch_size \div 2) :
     dt \in 0..(filter.config.patch_size - 1)}

\* every relative offset nlm_filter_process gives to get_frame: the target,
\* each candidate frame, and the patch rows of the target and the candidate
ProcessFrameOffsets(filter) ==
  {0} \cup UNION {{dt} \cup PatchRowOffsets(filter, 0)
                       \cup PatchRowOffsets(filter, dt) :
                   dt \in (-filter.config.search_range_time_past)
                            ..filter.config.search_range_time_future}

(***************************************************************************)
(* denoise_mixer.h: out[k] = in[k] * gain[k], or in[k] * (1 - gain[k]) when *)
(* residual_listen.  A spectrum carries its bins and the factor applied to *)
(* them: "none" (1), "gain" (g) or "residual" (1 - g).                     *)
(***************************************************************************)
denoise_mixer_run(fft_spectrum, parameters) ==
  [bins |-> fft_spectrum.bins,
   mix |-> IF parameters.residual_listen THEN "residual" ELSE "gain"]

\* the factor of a spectrum as the polynomial c0 + c1 * g in the gain g
MixCoefficient(mix) ==
  CASE mix = "none" -> <<1, 0>>
    [] mix = "gain" -> <<0, 1>>
    [] mix = "residual" -> <<1, -1>>

(***************************************************************************)
(* adaptive_noise_estimator.h: the estimator behind adaptive_noise.        *)
(* It keeps one noise value per bin: seeded by update_seed, floored by     *)
(* apply_floor, and following the minimum of the frames it is run on.      *)
(***************************************************************************)
adaptive_estimator_initialize(noise_spectrum_size, method) ==
  [method |-> method,
   noise |-> Filled(noise_spectrum_size, RInt(0)),
   runs |-> 0]

adaptive_estimator_get_method(self) == self.method

adaptive_estimator_update_seed(self, seed_profile) ==
  [self EXCEPT !.noise = seed_profile]

adaptive_estimator_run(self, spectrum) ==
  [self EXCEPT
     !.noise = [k \in DOMAIN @ |->
                  IF self.runs = 0 \/ RLess(RInt(spectrum[k]), @[k])
                  THEN RInt(spectrum[k]) ELSE @[k]],
     !.runs = IF @ < 2 THEN @ + 1 ELSE @]

adaptive_estimator_apply_floor(self, floor_profile) ==
  [self EXCEPT !.noise = [k \in DOMAIN @ |-> RMax(@[k], floor_profile[k])]]

(***************************************************************************)
(* spectral_2d_denoiser.c                                                  *)
(***************************************************************************)
DefaultParameters ==
  [learn_noise |-> 0, noise_reduction_mode |-> 0, residual_listen |-> FALSE,
   adaptive_noise |-> 0, noise_estimation_method |-> 0]

spectral_2d_denoiser_initialize(sample_rate, fft_size, overlap_factor, np) ==
  IF np = NULL \/ sample_rate = 0 \/ fft_size = 0 \/ overlap_factor = 0
  THEN NULL
  ELSE
    LET real_spectrum_size == UDiv(fft_size, 2) + 1
    IN [fft_size |-> fft_size,
        real_spectrum_size |-> real_spectrum_size,
        sample_rate |-> sample_rate,
        hop |-> UDiv(fft_size, overlap_factor),
        parameters |-> DefaultParameters,
        snr_frame |-> [smoothed |-> FALSE,
                       snr |-> Filled(real_spectrum_size, ZeroSnr),
                       noise |-> Filled(real_spectrum_size, RInt(0))],
        smoothed_snr |->
          [target |-> Filled(real_spectrum_size, ZeroSnr),
           candidates |-> [dt \in (-NLM_SEARCH_RANGE_TIME_PAST)
                                   ..NLM_SEARCH_RANGE_TIME_FUTURE |->
                             Filled(real_spectrum_size, ZeroSnr)]],
        noise_spectrum |-> Filled(real_spectrum_size, RInt(0)),
        manual_noise_floor |-> Filled(real_spectrum_size, RInt(0)),
        spectral_delay_buffer |->
          [i \in 0..(DELAY_BUFFER_FRAMES - 1) |-> Filled(fft_size, 0)],
        noise_delay_buffer |->
          [i \in 0..(DELAY_BUFFER_FRAMES - 1) |->
             Filled(real_spectrum_size, RInt(0))],
        delay_buffer_write_index |-> 0,
        noise_estimator |-> noise_estimation_initialize(fft_size),
        nlm_filter |-> nlm_filter_initialize(
           [spectrum_size |-> real_spectrum_size,
            time_buffer_size |-> NLM_SEARCH_RANGE_TIME_PAST
                                   + NLM_SEARCH_RANGE_TIME_FUTURE + 1,
            search_range_time_past |-> NLM_SEARCH_RANGE_TIME_PAST,
            search_range_time_future |-> NLM_SEARCH_RANGE_TIME_FUTURE]),
        adaptive_estimator |-> NULL,
        last_adaptive_state |-> 0,
        last_noise_reduction_mode |-> 0]

\* the adaptive estimator is (re)built when adaptive_noise is set and the
\* method differs; specbleach_2d_load_parameters never sets adaptive_noise
load_2d_reduction_parameters(self, parameters) ==
  LET needs_init == parameters.adaptive_noise # 0
                    /\ (self.adaptive_estimator = NULL
                        \/ adaptive_estimator_get_method(self.adaptive_estimator)
                             # parameters.noise_estimation_method)
  IN [self EXCEPT
        !.adaptive_estimator =
           IF needs_init
           THEN adaptive_estimator_initialize(self.real_spectrum_size,
                   parameters.noise_estimation_method)
           ELSE @,
        !.last_adaptive_state = IF needs_init THEN 0 ELSE @,
        !.parameters = parameters]

\* learning branch, lines 317-324: all three modes, the frame is left as is
LearnAllModes(self, np, reference_spectrum) ==
  LET First(r1) ==
        LET Second(r2) ==
              LET Third(r3) ==
                    [denoiser |-> [self EXCEPT !.noise_estimator = r3.estimator],
                     profile |-> r3.profile]
              IN Third(noise_estimation_run(r2.estimator, r2.profile, MAX,
                                            reference_spectrum))
        IN Second(noise_estimation_run(r1.estimator, r1.profile, MEDIAN,
                                       reference_spectrum))
  IN First(noise_estimation_run(self.noise_estimator, np, ROLLING_MEAN,
                                reference_spectrum))

\* snr[k] = reference[k] / denom, denom = noise[k] > FLT_MIN ? noise[k] : eps
SnrFrame(reference_spectrum, noise_spectrum) ==
  [k \in DOMAIN noise_spectrum |->
     [num |-> reference_spectrum[k],
      den |-> IF RLess(RInt(0), noise_spectrum[k]) THEN noise_spectrum[k]
              ELSE SPECTRAL_EPSILON]]

\* the slot just written is read back
DelayReadIndex_Current(write_index) == write_index

DelayReadIndex(write_index) ==
  (write_index + DELAY_BUFFER_FRAMES - NLM_SEARCH_RANGE_TIME_FUTURE)
    % DELAY_BUFFER_FRAMES

\* adaptive branch, lines 346-366: re-seed on a state or mode change, run the
\* estimator, floor its state and its output by the manual profile
AdaptiveLayer2D(self, floor, reference_spectrum) ==
  LET state_changed == self.last_adaptive_state = 0
      mode_changed == self.last_noise_reduction_mode
                        # self.parameters.noise_reduction_mode
      reseed == state_changed \/ mode_changed
      seeded == IF reseed
                THEN adaptive_estimator_update_seed(self.adaptive_estimator, floor)
                ELSE self.adaptive_estimator
      ran == adaptive_estimator_run(seeded, reference_spectrum)
  IN [adaptive_estimator |-> adaptive_estimator_apply_floor(ran, floor),
      noise |-> [k \in DOMAIN floor |-> RMax(ran.noise[k], floor[k])],
      last_adaptive_state |-> IF reseed THEN 1 ELSE self.last_adaptive_state,
      last_noise_reduction_mode |->
        IF reseed THEN self.parameters.noise_reduction_mode
        ELSE self.last_noise_reduction_mode]

\* denoising branch, lines 326-469
ReduceFrame(self, np, fft_spectrum, reference_spectrum) ==
  LET current_profile == get_noise_profile(np, self.parameters.noise_reduction_mode)
      floor == [k \in 0..(self.real_spectrum_size - 1) |->
                  IF current_profile = NULL THEN RInt(0) ELSE current_profile[k]]
      w == self.delay_buffer_write_index
      sdelay == [self.spectral_delay_buffer EXCEPT ![w] = fft_spectrum.bins]
      adaptive == self.parameters.adaptive_noise # 0
                  /\ self.adaptive_estimator # NULL
      layer == AdaptiveLayer2D(self, floor, reference_spectrum)
      noise == IF adaptive THEN layer.noise ELSE floor
      ndelay == [self.noise_delay_buffer EXCEPT ![w] = noise]
      snr == SnrFrame(reference_spectrum, noise)
      nlm == nlm_filter_push_frame(self.nlm_filter, snr)
      p == nlm_filter_process(nlm, self.smoothed_snr)
      read_index == DelayReadIndex(w)
      delayed_spectrum == sdelay[read_index]
      delayed_noise == ndelay[read_index]
      d1 == [self EXCEPT
               !.manual_noise_floor = floor,
               !.spectral_delay_buffer = sdelay,
               !.noise_delay_buffer = ndelay,
               !.adaptive_estimator =
                  IF adaptive THEN layer.adaptive_estimator ELSE @,
               !.last_adaptive_state =
                  IF adaptive THEN layer.last_adaptive_state ELSE 0,
               !.last_noise_reduction_mode =
                  IF adaptive THEN layer.last_noise_reduction_mode ELSE @,
               !.nlm_filter = nlm,
               !.smoothed_snr = p.smoothed_snr,
               !.delay_buffer_write_index = (w + 1) % DELAY_BUFFER_FRAMES]
  IN IF p.ret
     THEN [denoiser |-> [d1 EXCEPT
                           !.snr_frame = [smoothed |-> TRUE,
                                          snr |-> p.smoothed_snr.target,
                                          noise |-> delayed_noise],
                           !.noise_spectrum = delayed_noise],
           profile |-> np,
           spectrum |-> denoise_mixer_run([bins |-> delayed_spectrum],
                                          self.parameters)]
     ELSE [denoiser |-> [d1 EXCEPT !.snr_frame = [smoothed |-> FALSE, snr |-> snr,
                                                 noise |-> noise],
                                   !.noise_spectrum = noise],
           profile |-> np,
           spectrum |-> [bins |-> delayed_spectrum, mix |-> "none"]]

\* the frame callback of the 2-D denoiser
spectral_2d_denoiser_run(self, np, fft_spectrum) ==
  LET reference_spectrum == get_spectral_feature(fft_spectrum.bins, self.fft_size)
  IN IF self.parameters.learn_noise > 0
     THEN LET Learned(l) == [denoiser |-> l.denoiser, profile |-> l.profile,
                             spectrum |-> fft_spectrum]
          IN Learned(LearnAllModes(self, np, reference_spectrum))
     ELSE ReduceFrame(self, np, fft_spectrum, reference_spectrum)

spectral_2d_denoiser_get_latency_frames(self) ==
  IF self = NULL \/ self.nlm_filter = NULL THEN 0
  ELSE nlm_filter_get_latency_frames(self.nlm_filter)

(***************************************************************************)
(* stft_processor_run with the 2-D denoiser callback                       *)
(* A 2-D handle is [family, sample_rate, hop, stft, noise_profile,         *)
(* denoiser]: the fields of Sb2DDenoiser.                                  *)
(***************************************************************************)
\* one iteration of the sample loop, lines 94-132
RunOneSample(h, x) ==
  LET Filled1(f) ==
        LET s1 == [h.stft EXCEPT !.stft_buffer = f.buffer]
            Analysed(spectrum) ==
              LET Denoised(r) ==
                    LET tmp == SynthesiseFrame(s1.fft_transform, r.spectrum)
                    IN [h |-> [h EXCEPT !.stft = OverlapAdd(s1, tmp),
                                        !.denoiser = r.denoiser,
                                        !.noise_profile = r.profile],
                        sample |-> f.sample,
                        callbacks |-> << [input |-> spectrum,
                                          output |-> r.spectrum] >>]
              IN Denoised(spectral_2d_denoiser_run(h.denoiser, h.noise_profile,
                                                   spectrum))
        IN IF is_buffer_full(f.buffer)
           THEN Analysed(AnalyseFrame(s1.fft_transform,
                                      get_full_buffer_block(f.buffer)))
           ELSE [h |-> [h EXCEPT !.stft = s1],
                 sample |-> f.sample,
                 callbacks |-> << >>]
  IN Filled1(stft_buffer_fill(h.stft.stft_buffer, x))

RECURSIVE RunLoop(_, _, _, _)
RunLoop(h, number_of_samples, input, k) ==
  IF k > number_of_samples
  THEN [h |-> h, output |-> << >>, callbacks |-> << >>]
  ELSE LET Stepped(one) ==
             LET Joined(rest) ==
                   [h |-> rest.h,
                    output |-> << one.sample >> \o rest.output,
                    callbacks |-> [i \in 1..Len(one.callbacks) |->
                                     [k |-> k, input |-> one.callbacks[i].input,
                                      output |-> one.callbacks[i].output]]
                                  \o rest.callbacks]
             IN Joined(RunLoop(one.h, number_of_samples, input, k + 1))
       IN Stepped(RunOneSample(h, input.data[k]))

\* the partly filled hop is dropped when a call starts
stft_processor_run_RestartsHop(h, number_of_samples, input, output) ==
  IF h.stft = NULL \/ input = NULL \/ output = NULL \/ number_of_samples <= 0
  THEN [ret |-> FALSE, h |-> h, output |-> << >>, callbacks |-> << >>]
  ELSE LET h0 == [h EXCEPT !.stft.stft_buffer.read_position =
                               h.stft.stft_buffer.start_position]
           Ran(r) == [ret |-> TRUE, h |-> r.h, output |-> r.output,
                      callbacks |-> r.callbacks]
       IN Ran(RunLoop(h0, number_of_samples, input, 1))

stft_processor_run(h, number_of_samples, input, output) ==
  IF h.stft = NULL \/ input = NULL \/ output = NULL \/ number_of_samples <= 0
  THEN [ret |-> FALSE, h |-> h, output |-> << >>, callbacks |-> << >>]
  ELSE LET Ran(r) == [ret |-> TRUE, h |-> r.h, output |-> r.output,
                      callbacks |-> r.callbacks]
       IN Ran(RunLoop(h, number_of_samples, input, 1))

(***************************************************************************)
(* specbleach_2d_denoiser.c                                                *)
(***************************************************************************)
\* the sample count is not checked here; the frontend refuses the block but
\* its result is dropped
specbleach_2d_process_NoCountCheck(instance, number_of_samples, input, output) ==
  IF instance = NULL \/ input = NULL \/ output = NULL
  THEN [ret |-> FALSE, h |-> instance, output |-> << >>, callbacks |-> << >>]
  ELSE LET Ran(r) == [ret |-> TRUE, h |-> r.h, output |-> r.output,
                      callbacks |-> r.callbacks]
       IN Ran(stft_processor_run(instance, number_of_samples, input, output))

specbleach_2d_process(instance, number_of_samples, input, output) ==
  IF instance = NULL \/ number_of_samples = 0 \/ input = NULL \/ output = NULL
  THEN [ret |-> FALSE, h |-> instance, output |-> << >>, callbacks |-> << >>]
  ELSE LET Ran(r) == [ret |-> TRUE, h |-> r.h, output |-> r.output,
                      callbacks |-> r.callbacks]
       IN Ran(stft_processor_run(instance, number_of_samples, input, output))

\* the public parameters as converted to Denoiser2DParameters: the fields the
\* designated initialiser names are copied, the others (adaptive_noise,
\* noise_estimation_method, ...) are zero
specbleach_2d_load_parameters(instance, parameters) ==
  IF instance = NULL THEN [ret |-> FALSE, h |-> instance]
  ELSE LET denoise_parameters ==
             [learn_noise |-> parameters.learn_noise,
              noise_reduction_mode |-> parameters.noise_reduction_mode,
              residual_listen |-> parameters.residual_listen,
              adaptive_noise |-> 0,
              noise_estimation_method |-> 0]
       IN [ret |-> TRUE,
           h |-> [instance EXCEPT
                    !.denoise_parameters = denoise_parameters,
                    !.denoiser =
                       load_2d_reduction_parameters(instance.denoiser,
                                                    denoise_parameters)]]

\* env: what the platform does where the C code leaves it open
\*   conv     - conversion of a negative float to uint32_t
\*   alloc_ok - whether the checked allocations succeed
NormalEnv == [conv |-> "wrap", alloc_ok |-> TRUE]

specbleach_2d_initialize(sample_rate, frame_size, env) ==
  LET stft_processor == stft_processor_initialize(sample_rate, frame_size,
                           OVERLAP_FACTOR_GENERAL, env.conv)
      fft_size == get_stft_fft_size(stft_processor)
      np == IF env.alloc_ok THEN noise_profile_initialize(fft_size) ELSE NULL
      d == spectral_2d_denoiser_initialize(sample_rate, fft_size,
                                           OVERLAP_FACTOR_GENERAL, np)
  IN IF np = NULL \/ d = NULL THEN NULL
     ELSE [family |-> "2d",
           sample_rate |-> sample_rate,
           hop |-> UDiv(fft_size, OVERLAP_FACTOR_GENERAL),
           denoise_parameters |-> DefaultParameters,
           stft |-> stft_processor,
           noise_profile |-> np,
           denoiser |-> d]

(***************************************************************************)
(* Spec: one 2-D handle fed a signal in blocks, with parameter loads       *)
(***************************************************************************)
\* the test signal: sample i has value i, so every frame is distinct
In(i) == i
\* a non-null sample buffer is [data |-> samples]
Block(from, n) == [k \in 1..n |-> In(from + k)]

\* argument tuples of process: every valid block size, and each single fault
ProcessArgs ==
  {[instance_null |-> FALSE, n |-> n, input_null |-> FALSE,
    output_null |-> FALSE] : n \in 1..MaxBlock}
  \cup {[instance_null |-> TRUE, n |-> 1, input_null |-> FALSE, output_null |-> FALSE],
        [instance_null |-> FALSE, n |-> 0, input_null |-> FALSE, output_null |-> FALSE],
        [instance_null |-> FALSE, n |-> 1, input_null |-> TRUE, output_null |-> FALSE],
        [instance_null |-> FALSE, n |-> 1, input_null |-> FALSE, output_null |-> TRUE]}

ParameterChoices ==
  {[learn_noise |-> l, noise_reduction_mode |-> m, residual_listen |-> r] :
     l \in {0, 1}, m \in {ROLLING_MEAN, MAX}, r \in BOOLEAN}

Init ==
  /\ handle = specbleach_2d_initialize(StreamConfig.sample_rate,
                                       StreamConfig.frame_ms, NormalEnv)
  /\ fed = 0
  /\ outs = << >>
  /\ frames = << >>
  /\ loads = 0
  /\ base = [h |-> handle, fed |-> 0]
  /\ call = [op |-> "initialize"]

Process ==
  \E a \in ProcessArgs :
    /\ fed + a.n <= MaxSamples
    /\ LET instance == IF a.instance_null THEN NULL ELSE handle
           input == IF a.input_null THEN NULL ELSE [data |-> Block(fed, a.n)]
           output == IF a.output_null THEN NULL ELSE [data |-> << >>]
       IN \E r \in {specbleach_2d_process(instance, a.n, input, output)} :
            /\ handle' = IF a.instance_null THEN handle ELSE r.h
            /\ fed' = fed + Len(r.output)
            /\ outs' = outs \o r.output
            /\ frames' = frames \o
                  [i \in 1..Len(r.callbacks) |->
                     [at |-> fed + r.callbacks[i].k,
                      input |-> r.callbacks[i].input,
                      output |-> r.callbacks[i].output]]
            /\ call' = [op |-> "process", args |-> a, ret |-> r.ret,
                        written |-> Len(r.output)]
            /\ UNCHANGED <<loads, base>>

LoadParameters ==
  \E p \in ParameterChoices :
    /\ loads < MaxLoads
    /\ \E r \in {specbleach_2d_load_parameters(handle, p)} :
          /\ handle' = r.h
          /\ base' = [h |-> r.h, fed |-> fed]
          /\ call' = [op |-> "load_parameters", args |-> p, ret |-> r.ret]
    /\ loads' = loads + 1
    /\ UNCHANGED <<fed, outs, frames>>

Next == Process \/ LoadParameters

Spec == Init /\ [][Next]_vars

(***************************************************************************)
(* Properties of the streaming handle (checked under Spec)                 *)
(***************************************************************************)
ValidProcessCall(c) ==
  /\ c.op = "process"
  /\ ~c.args.instance_null /\ ~c.args.input_null /\ ~c.args.output_null
  /\ c.args.n > 0

\* C1: a process call with a positive sample count n writes exactly n output
\* samples, and consecutive frame callbacks are exactly hop input samples
\* apart, counted across calls, however the samples are split into blocks.
C1_WritesAllSamplesFramesOneHopApart ==
  /\ ValidProcessCall(call) => (call.ret /\ call.written = call.args.n)
  /\ Len(outs) = fed
  /\ \A j \in 2..Len(frames) :
       frames[j].at - frames[j - 1].at = handle.stft.hop

\* frames were emitted by several calls, the last one a block of hop + 1
C1_Witness ==
  /\ ValidProcessCall(call) /\ call.args.n = handle.stft.hop + 1
  /\ Len(frames) >= 3
  /\ frames[Len(frames)].at > fed - call.args.n

\* C4: whatever load_parameters did (learn_noise switched on and off
\* included), the spectrum the j-th frame callback hands back is the input
\* frame of callback j - T_future: constant delay, input order kept.
C4_EveryFrameDelayedByTFuture ==
  \A j \in 1..Len(frames) :
    j > NLM_SEARCH_RANGE_TIME_FUTURE =>
      frames[j].output.bins =
        frames[j - NLM_SEARCH_RANGE_TIME_FUTURE].input.bins

\* C5: with the configuration frozen, the blocks fed since the last
\* configuration change give the same output samples and the same processor
\* state as the same samples fed as one big block.
C5_BlockSplitEqualsOneBlock ==
  LET n == fed - base.fed
      one == specbleach_2d_process(base.h, n, [data |-> Block(base.fed, n)],
                                   [data |-> << >>])
  IN n > 0 =>
       /\ one.ret
       /\ one.h = handle
       /\ one.output = SubSeq(outs, base.fed + 1, fed)

\* the samples since the last configuration change came in several blocks
\* that do not line up with the hop, and frames were emitted
C5_Witness ==
  /\ ValidProcessCall(call) /\ call.args.n = 1
  /\ fed - base.fed > 2 * MaxBlock
  /\ Len(frames) >= 2
  /\ base.fed > 0

BadProcessCall(c) ==
  /\ c.op = "process"
  /\ \/ c.args.instance_null \/ c.args.input_null \/ c.args.output_null
     \/ c.args.n = 0

\* C6: process with a null handle, a null input, a null output or a sample
\* count of 0 returns false and changes nothing: no output sample written, no
\* buffer position advanced, no frame callback run.
C6_BadProcessCallChangesNothing ==
  [][BadProcessCall(call') =>
       (~call'.ret /\ call'.written = 0
        /\ UNCHANGED <<handle, fed, outs, frames>>)]_vars

\* a refused call made in mid-stream, with a hop partly filled
C6_Witness ==
  /\ BadProcessCall(call) /\ ~call.ret
  /\ Len(frames) >= 1
  /\ handle.stft.stft_buffer.read_position >
       handle.stft.stft_buffer.start_position

(***************************************************************************)
(* specbleach_2d_denoiser.c: the noise-profile entry points                *)
(***************************************************************************)
specbleach_2d_get_noise_profile_size(instance) ==
  IF instance = NULL \/ instance.noise_profile = NULL THEN 0
  ELSE get_noise_profile_size(instance.noise_profile)

\* the stored profiles are cleared before the size is compared
specbleach_2d_load_noise_profile_for_mode_ClearsFirst(instance, restored_profile, profile_size, averaged_blocks, mode) ==
  IF instance = NULL \/ instance.noise_profile = NULL
     \/ restored_profile = NULL \/ mode < 1 \/ mode > 3
  THEN [ret |-> FALSE, h |-> instance]
  ELSE IF profile_size # get_noise_profile_size(instance.noise_profile)
  THEN [ret |-> FALSE,
        h |-> [instance EXCEPT !.noise_profile = reset_noise_profile(@)]]
  ELSE [ret |-> TRUE,
        h |-> [instance EXCEPT !.noise_profile =
                 set_noise_profile(@, mode, restored_profile, profile_size,
                                   averaged_blocks).profile]]

specbleach_2d_load_noise_profile_for_mode(instance, restored_profile, profile_size, averaged_blocks, mode) ==
  IF instance = NULL \/ instance.noise_profile = NULL
     \/ restored_profile = NULL \/ mode < 1 \/ mode > 3
  THEN [ret |-> FALSE, h |-> instance]
  ELSE IF profile_size # get_noise_profile_size(instance.noise_profile)
  THEN [ret |-> FALSE, h |-> instance]
  ELSE [ret |-> TRUE,
        h |-> [instance EXCEPT !.noise_profile =
                 set_noise_profile(@, mode, restored_profile, profile_size,
                                   averaged_blocks).profile]]

specbleach_2d_reset_noise_profile(instance) ==
  IF instance = NULL \/ instance.noise_profile = NULL
  THEN [ret |-> FALSE, h |-> instance]
  ELSE [ret |-> TRUE,
        h |-> [instance EXCEPT !.noise_profile = reset_noise_profile(@)]]

specbleach_2d_get_noise_profile_blocks_averaged_for_mode(instance, mode) ==
  IF instance = NULL \/ instance.noise_profile = NULL THEN 0
  ELSE get_noise_profile_blocks_averaged(instance.noise_profile, mode)

specbleach_2d_get_noise_profile_for_mode(instance, mode) ==
  IF instance = NULL \/ instance.noise_profile = NULL THEN NULL
  ELSE get_noise_profile(instance.noise_profile, mode)

specbleach_2d_noise_profile_available_for_mode(instance, mode) ==
  IF instance = NULL \/ instance.noise_profile = NULL THEN FALSE
  ELSE is_noise_estimation_available(instance.noise_profile, mode)

specbleach_2d_get_noise_profile_blocks_averaged(instance) ==
  IF instance = NULL \/ instance.noise_profile = NULL THEN 0
  ELSE get_noise_profile_blocks_averaged(instance.noise_profile, ROLLING_MEAN)

specbleach_2d_get_noise_profile(instance) ==
  IF instance = NULL \/ instance.noise_profile = NULL THEN NULL
  ELSE get_noise_profile(instance.noise_profile, ROLLING_MEAN)

\* the result of set_noise_profile is not looked at
specbleach_2d_load_noise_profile(instance, restored_profile, profile_size, averaged_blocks) ==
  IF instance = NULL \/ instance.noise_profile = NULL \/ restored_profile = NULL
  THEN [ret |-> FALSE, h |-> instance]
  ELSE IF profile_size # get_noise_profile_size(instance.noise_profile)
  THEN [ret |-> FALSE, h |-> instance]
  ELSE [ret |-> TRUE,
        h |-> [instance EXCEPT !.noise_profile =
                 set_noise_profile(@,
                    instance.denoise_parameters.noise_reduction_mode,
                    restored_profile, profile_size, averaged_blocks).profile]]

specbleach_2d_noise_profile_available(instance) ==
  IF instance = NULL \/ instance.noise_profile = NULL THEN FALSE
  ELSE is_noise_estimation_available(instance.noise_profile, ROLLING_MEAN)

(***************************************************************************)
(* SpecProfile: one 2-D handle, profiles loaded and reset by the caller    *)
(***************************************************************************)
\* the arrays a caller passes: of the profile size or one short, every
\* element different, and the null pointer
CallerArrays(size) ==
  {[data |-> [k \in 0..(n - 1) |-> RInt(v + k)]] :
     v \in 1..MaxValue, n \in {size - 1, size}} \cup {NULL}

ArraySize(a, size) == IF a = NULL THEN size ELSE Cardinality(DOMAIN a.data)

ProfileInit ==
  /\ handle = specbleach_2d_initialize(ProfileConfig.sample_rate,
                                       ProfileConfig.frame_ms, NormalEnv)
  /\ fed = 0
  /\ outs = << >>
  /\ frames = << >>
  /\ loads = 0
  /\ base = [h |-> handle, fed |-> 0]
  /\ call = [op |-> "initialize"]

LoadProfileForMode ==
  \E mode \in 0..(NOISE_PROFILE_MODES + 1), blocks \in {0, MaxValue},
     a \in CallerArrays(specbleach_2d_get_noise_profile_size(handle)) :
    /\ loads < MaxProfileOps
    /\ LET size == ArraySize(a, specbleach_2d_get_noise_profile_size(handle))
           r == specbleach_2d_load_noise_profile_for_mode(handle, a, size,
                                                          blocks, mode)
       IN /\ handle' = r.h
          /\ call' = [op |-> "load_noise_profile_for_mode", ret |-> r.ret,
                      args |-> [array |-> a, size |-> size,
                                blocks |-> blocks, mode |-> mode]]
    /\ loads' = loads + 1
    /\ UNCHANGED <<fed, outs, frames, base>>

ResetProfile ==
  /\ loads < MaxProfileOps
  /\ LET r == specbleach_2d_reset_noise_profile(handle)
     IN /\ handle' = r.h
        /\ call' = [op |-> "reset_noise_profile", ret |-> r.ret]
  /\ loads' = loads + 1
  /\ UNCHANGED <<fed, outs, frames, base>>

ProfileNext == LoadProfileForMode \/ ResetProfile

SpecProfile == ProfileInit /\ [][ProfileNext]_vars

BadLoadArguments(h, args) ==
  \/ args.array = NULL
  \/ args.size # specbleach_2d_get_noise_profile_size(h)
  \/ args.mode < 1 \/ args.mode > 3

\* C9: load_noise_profile_for_mode given a null array, a size other than the
\* profile size or a mode outside 1..3 returns false and leaves the data, the
\* blocks_averaged count and the availability flag of all three modes as
\* they were.
C9_RefusedLoadChangesNothing ==
  [][(call'.op = "load_noise_profile_for_mode"
      /\ BadLoadArguments(handle, call'.args)) =>
       (~call'.ret
        /\ handle'.noise_profile = handle.noise_profile)]_vars

\* a refused load made when a profile is stored
C9_Witness ==
  /\ call.op = "load_noise_profile_for_mode" /\ ~call.ret
  /\ call.args.array # NULL
  /\ call.args.size # specbleach_2d_get_noise_profile_size(handle)
  /\ \E m \in 1..3 : specbleach_2d_noise_profile_available_for_mode(handle, m)

\* C10: after load_noise_profile_for_mode(m, A, size, blocks) returned true,
\* get_noise_profile_for_mode(m) is A element for element, the
\* blocks_averaged count of m is blocks and m is reported available.
C10_LoadThenGetRoundTrip ==
  (call.op = "load_noise_profile_for_mode" /\ call.ret) =>
    LET m == call.args.mode
        got == specbleach_2d_get_noise_profile_for_mode(handle, m)
    IN /\ got # NULL
       /\ \A k \in 0..(call.args.size - 1) : got[k] = call.args.array.data[k]
       /\ specbleach_2d_get_noise_profile_blocks_averaged_for_mode(handle, m)
            = call.args.blocks
       /\ specbleach_2d_noise_profile_available_for_mode(handle, m)

\* a second load, into the last mode, of another array than the first
C10_Witness ==
  /\ call.op = "load_noise_profile_for_mode" /\ call.ret
  /\ call.args.mode = MAX
  /\ loads = 2
  /\ \E m \in 1..2 :
       /\ specbleach_2d_noise_profile_available_for_mode(handle, m)
       /\ specbleach_2d_get_noise_profile_for_mode(handle, m)
            # call.args.array.data

\* C11: a successful load into mode m leaves the profile data, the
\* blocks_averaged count and the availability flag of the other two modes
\* exactly as they were before the load.
C11_LoadLeavesOtherModes ==
  [][(call'.op = "load_noise_profile_for_mode" /\ call'.ret) =>
       \A m \in (1..NOISE_PROFILE_MODES) \ {call'.args.mode} :
         /\ specbleach_2d_get_noise_profile_for_mode(handle', m)
              = specbleach_2d_get_noise_profile_for_mode(handle, m)
         /\ specbleach_2d_get_noise_profile_blocks_averaged_for_mode(handle', m)
              = specbleach_2d_get_noise_profile_blocks_averaged_for_mode(handle, m)
         /\ specbleach_2d_noise_profile_available_for_mode(handle', m)
              = specbleach_2d_noise_profile_available_for_mode(handle, m)]_vars

\* a load into the first mode made when the last mode holds a loaded profile
\* and the middle mode holds none
C11_Witness ==
  /\ call.op = "load_noise_profile_for_mode" /\ call.ret
  /\ call.args.mode = ROLLING_MEAN
  /\ specbleach_2d_noise_profile_available_for_mode(handle, MAX)
  /\ specbleach_2d_get_noise_profile_blocks_averaged_for_mode(handle, MAX)
       = MaxValue
  /\ ~specbleach_2d_noise_profile_available_for_mode(handle, MEDIAN)

(***************************************************************************)
(* The public entry points of the three families                           *)
(* specbleach_denoiser.c, specbleach_adenoiser.c, specbleach_2d_denoiser.c *)
(* The result of a call on a handle is [deref, value]: deref says that the *)
(* call read a field through a null handle, value is what it returned      *)
(* (false and NULL as 0, true and a valid pointer as 1).                   *)
(***************************************************************************)
\* guard and scalar fields; the checked allocations succeed when alloc_ok
spectral_denoiser_initialize(sample_rate, fft_size, overlap_factor, np, alloc_ok) ==
  IF np = NULL \/ sample_rate = 0 \/ fft_size = 0 \/ overlap_factor = 0
  THEN NULL
  ELSE IF ~alloc_ok THEN NULL
  ELSE [fft_size |-> fft_size,
        real_spectrum_size |-> UDiv(fft_size, 2) + 1,
        hop |-> UDiv(fft_size, overlap_factor),
        sample_rate |-> sample_rate,
        denoise_parameters |-> DefaultParameters,
        noise_spectrum |-> Filled(UDiv(fft_size, 2) + 1, RInt(0)),
        manual_noise_floor |-> Filled(UDiv(fft_size, 2) + 1, RInt(0)),
        noise_estimator |-> noise_estimation_initialize(fft_size),
        adaptive_estimator |-> NULL,
        last_adaptive_state |-> 0,
        last_noise_reduction_mode |-> 0]

load_reduction_parameters(self, parameters) ==
  LET needs_init == parameters.adaptive_noise # 0
                    /\ (self.adaptive_estimator = NULL
                        \/ adaptive_estimator_get_method(self.adaptive_estimator)
                             # parameters.noise_estimation_method)
  IN [self EXCEPT
        !.adaptive_estimator =
           IF needs_init
           THEN adaptive_estimator_initialize(self.real_spectrum_size,
                   parameters.noise_estimation_method)
           ELSE @,
        !.last_adaptive_state = IF needs_init THEN 0 ELSE @,
        !.denoise_parameters = parameters]

\* learning branch, lines 290-297: all three modes, the frame is left as is
ManualLearnAllModes(self, np, reference_spectrum) ==
  LET First(r1) ==
        LET Second(r2) ==
              LET Third(r3) ==
                    [denoiser |-> [self EXCEPT !.noise_estimator = r3.estimator],
                     profile |-> r3.profile]
              IN Third(noise_estimation_run(r2.estimator, r2.profile, MAX,
                                            reference_spectrum))
        IN Second(noise_estimation_run(r1.estimator, r1.profile, MEDIAN,
                                       reference_spectrum))
  IN First(noise_estimation_run(self.noise_estimator, np, ROLLING_MEAN,
                                reference_spectrum))

\* lines 317-321: the frame re-seeds the estimator
ManualReseeds(self) ==
  LET state_changed == self.last_adaptive_state = 0
      mode_changed == self.last_noise_reduction_mode
                        # self.denoise_parameters.noise_reduction_mode
  IN state_changed \/ mode_changed

\* adaptive branch, lines 315-339
ManualAdaptiveLayer(self, floor, reference_spectrum) ==
  LET reseed == ManualReseeds(self)
      seeded == IF reseed
                THEN adaptive_estimator_update_seed(self.adaptive_estimator, floor)
                ELSE self.adaptive_estimator
      ran == adaptive_estimator_run(seeded, reference_spectrum)
  IN [adaptive_estimator |-> adaptive_estimator_apply_floor(ran, floor),
      noise |-> [k \in DOMAIN floor |-> RMax(ran.noise[k], floor[k])],
      last_adaptive_state |-> IF reseed THEN 1 ELSE self.last_adaptive_state,
      last_noise_reduction_mode |->
        IF reseed THEN self.denoise_parameters.noise_reduction_mode
        ELSE self.last_noise_reduction_mode]

\* denoising path, lines 299-409: the noise of the frame, then the common
\* path that ends in the mixer; with no adaptive estimator and no available
\* profile the frame is returned as it came
ManualReduceFrame(self, np, fft_spectrum, reference_spectrum) ==
  LET mode == self.denoise_parameters.noise_reduction_mode
      current_profile == get_noise_profile(np, mode)
      floor == [k \in 0..(self.real_spectrum_size - 1) |->
                  IF current_profile = NULL THEN RInt(0) ELSE current_profile[k]]
      layer == ManualAdaptiveLayer(self, floor, reference_spectrum)
  IN IF self.denoise_parameters.adaptive_noise # 0
        /\ self.adaptive_estimator # NULL
     THEN [denoiser |-> [self EXCEPT
                           !.manual_noise_floor = floor,
                           !.adaptive_estimator = layer.adaptive_estimator,
                           !.last_adaptive_state = layer.last_adaptive_state,
                           !.last_noise_reduction_mode =
                              layer.last_noise_reduction_mode,
                           !.noise_spectrum = layer.noise],
           profile |-> np,
           spectrum |-> denoise_mixer_run(fft_spectrum, self.denoise_parameters)]
     ELSE IF is_noise_estimation_available(np, mode)
     THEN [denoiser |-> [self EXCEPT !.manual_noise_floor = floor,
                                     !.last_adaptive_state = 0,
                                     !.noise_spectrum = floor],
           profile |-> np,
           spectrum |-> denoise_mixer_run(fft_spectrum, self.denoise_parameters)]
     ELSE [denoiser |-> [self EXCEPT !.manual_noise_floor = floor,
                                     !.last_adaptive_state = 0],
           profile |-> np,
           spectrum |-> fft_spectrum]

\* the frame callback with a residual path that leaves the frame as it came
spectral_denoiser_run_ResidualSkips(self, np, fft_spectrum) ==
  LET reference_spectrum == get_spectral_feature(fft_spectrum.bins, self.fft_size)
  IN IF self.denoise_parameters.learn_noise > 0
     THEN LET Learned(l) == [denoiser |-> l.denoiser, profile |-> l.profile,
                             spectrum |-> fft_spectrum]
          IN Learned(ManualLearnAllModes(self, np, reference_spectrum))
     ELSE LET Reduced(r) ==
                [r EXCEPT !.spectrum =
                   IF self.denoise_parameters.residual_listen
                   THEN fft_spectrum ELSE @]
          IN Reduced(ManualReduceFrame(self, np, fft_spectrum, reference_spectrum))

\* the frame callback of the manual denoiser
spectral_denoiser_run(self, np, fft_spectrum) ==
  LET reference_spectrum == get_spectral_feature(fft_spectrum.bins, self.fft_size)
  IN IF self.denoise_parameters.learn_noise > 0
     THEN LET Learned(l) == [denoiser |-> l.denoiser, profile |-> l.profile,
                             spectrum |-> fft_spectrum]
          IN Learned(ManualLearnAllModes(self, np, reference_spectrum))
     ELSE ManualReduceFrame(self, np, fft_spectrum, reference_spectrum)

(***************************************************************************)
(* adaptive_noise_estimator.c: one estimator struct with two run functions, *)
(* used by the adaptive denoiser.  The frame spectra kept are those of     *)
(* `previous`, which every run ends by copying from `current`.             *)
(***************************************************************************)
N_SMOOTH == <<7, 10>>
BETA_AT == <<4, 5>>
GAMMA == <<499, 500>>
ALPHA_P == <<1, 5>>
ALPHA_D == <<17, 20>>
\* compute_auto_thresholds: the bins of the model lie in the first band
BAND_1_LEVEL == 2

louizou_estimator_initialize(noise_spectrum_size) ==
  [noise_spectrum_size |-> noise_spectrum_size,
   smoothed_spectrum |-> Filled(noise_spectrum_size, RInt(0)),
   local_minimum_spectrum |-> Filled(noise_spectrum_size, RInt(0)),
   speech_present_probability_spectrum |-> Filled(noise_spectrum_size, RInt(0)),
   previous_noise_spectrum |-> Filled(noise_spectrum_size, RInt(0)),
   spp_previous_noise_psd |-> Filled(noise_spectrum_size, RInt(0)),
   spp_smoothed_spp |-> Filled(noise_spectrum_size, RInt(0)),
   is_first_frame |-> TRUE]

\* the same allocations and the same initial values
spp_mmse_estimator_initialize(noise_spectrum_size) ==
  louizou_estimator_initialize(noise_spectrum_size)

\* lines 234-272: one bin of a frame that is not the first
LouizouBin(self, x, k) ==
  LET Smoothed(smoothed) ==
        LET Minimum(local_minimum) ==
              LET Probability(p) ==
                    LET Constant(c) ==
                          [smoothed |-> smoothed,
                           local_minimum |-> local_minimum,
                           probability |-> p,
                           noise |-> RAdd(RMul(c, self.previous_noise_spectrum[k]),
                                          RMul(RSub(ROne, c), x))]
                    IN Constant(RAdd(ALPHA_D, RMul(RSub(ROne, ALPHA_D), p)))
              IN Probability(
                   RAdd(RMul(ALPHA_P, self.speech_present_probability_spectrum[k]),
                        RMul(RSub(ROne, ALPHA_P),
                             IF RLess(RMul(RInt(BAND_1_LEVEL), local_minimum),
                                      smoothed)
                             THEN ROne ELSE RInt(0))))
        IN Minimum(
             IF RLess(self.local_minimum_spectrum[k], smoothed)
             THEN RAdd(RMul(GAMMA, self.local_minimum_spectrum[k]),
                       RMul(RMul(RSub(ROne, GAMMA), <<5, 1>>),
                            RSub(smoothed,
                                 RMul(BETA_AT, self.smoothed_spectrum[k]))))
             ELSE smoothed)
  IN Smoothed(RAdd(RMul(N_SMOOTH, self.smoothed_spectrum[k]),
                   RMul(RSub(ROne, N_SMOOTH), x)))

louizou_estimator_run(self, spectrum) ==
  IF self.is_first_frame
  THEN LET first == [k \in 0..(self.noise_spectrum_size - 1) |-> RInt(spectrum[k])]
       IN [self |-> [self EXCEPT !.smoothed_spectrum = first,
                                 !.local_minimum_spectrum = first,
                                 !.previous_noise_spectrum = first,
                                 !.is_first_frame = FALSE],
           noise |-> first]
  ELSE LET Bins(b) ==
             [self |-> [self EXCEPT
                          !.smoothed_spectrum = [k \in DOMAIN b |-> b[k].smoothed],
                          !.local_minimum_spectrum =
                             [k \in DOMAIN b |-> b[k].local_minimum],
                          !.speech_present_probability_spectrum =
                             [k \in DOMAIN b |-> b[k].probability],
                          !.previous_noise_spectrum =
                             [k \in DOMAIN b |-> b[k].noise]],
              noise |-> [k \in DOMAIN b |-> b[k].noise]]
       IN Bins([k \in 0..(self.noise_spectrum_size - 1) |->
                  LouizouBin(self, RInt(spectrum[k]), k)])

spectral_adaptive_denoiser_initialize(sample_rate, fft_size, overlap_factor, alloc_ok) ==
  IF sample_rate = 0 \/ fft_size = 0 \/ overlap_factor = 0
  THEN NULL
  ELSE IF ~alloc_ok THEN NULL
  ELSE [fft_size |-> fft_size,
        real_spectrum_size |-> UDiv(fft_size, 2) + 1,
        sample_rate |-> sample_rate,
        hop |-> UDiv(fft_size, overlap_factor),
        parameters |-> [noise_estimation_method |-> 0, residual_listen |-> FALSE],
        noise_profile |-> Filled(UDiv(fft_size, 2) + 1, RInt(0)),
        adaptive_estimator |->
          louizou_estimator_initialize(UDiv(fft_size, 2) + 1)]

specbleach_initialize(sample_rate, frame_size, env) ==
  LET stft_processor == stft_processor_initialize(sample_rate, frame_size,
                           OVERLAP_FACTOR_GENERAL, env.conv)
      fft_size == get_stft_fft_size(stft_processor)
      real_spectrum_size == get_stft_real_spectrum_size(stft_processor)
      np == IF env.alloc_ok THEN noise_profile_initialize(real_spectrum_size)
            ELSE NULL
      d == spectral_denoiser_initialize(sample_rate, fft_size,
                                        OVERLAP_FACTOR_GENERAL, np, env.alloc_ok)
  IN IF np = NULL \/ d = NULL THEN NULL
     ELSE [family |-> "manual",
           sample_rate |-> sample_rate,
           stft |-> stft_processor,
           noise_profile |-> np,
           denoiser |-> d]

specbleach_free(instance) ==
  [deref |-> instance = NULL, value |-> 0]

specbleach_get_latency(instance) ==
  IF instance = NULL THEN [deref |-> TRUE, value |-> 0]
  ELSE [deref |-> FALSE, value |-> get_stft_latency(instance.stft)]

specbleach_get_noise_profile_size(instance) ==
  IF instance = NULL THEN [deref |-> TRUE, value |-> 0]
  ELSE [deref |-> FALSE,
        value |-> get_noise_profile_size(instance.noise_profile)]

\* the entry guard of specbleach_reset_noise_profile
specbleach_reset_noise_profile(instance) ==
  IF instance = NULL THEN [deref |-> FALSE, value |-> 0]
  ELSE [deref |-> FALSE, value |-> 1]

specbleach_adaptive_initialize(sample_rate, frame_size, env) ==
  LET stft_processor == stft_processor_initialize(sample_rate, frame_size,
                           OVERLAP_FACTOR_SPEECH, env.conv)
      fft_size == get_stft_fft_size(stft_processor)
      d == spectral_adaptive_denoiser_initialize(sample_rate, fft_size,
                                        OVERLAP_FACTOR_SPEECH, env.alloc_ok)
  IN IF d = NULL THEN NULL
     ELSE [family |-> "adaptive",
           sample_rate |-> sample_rate,
           stft |-> stft_processor,
           denoiser |-> d]

specbleach_adaptive_free(instance) ==
  [deref |-> instance = NULL, value |-> 0]

specbleach_adaptive_get_latency(instance) ==
  IF instance = NULL THEN [deref |-> TRUE, value |-> 0]
  ELSE [deref |-> FALSE, value |-> get_stft_latency(instance.stft)]

specbleach_2d_free(instance) ==
  [deref |-> FALSE, value |-> 0]

specbleach_2d_get_latency(instance) ==
  IF instance = NULL THEN [deref |-> FALSE, value |-> 0]
  ELSE LET stft_latency == get_stft_latency(instance.stft)
           nlm_latency_frames ==
             spectral_2d_denoiser_get_latency_frames(instance.denoiser)
           nlm_latency_samples == Mul32(nlm_latency_frames, instance.hop)
       IN [deref |-> FALSE, value |-> Add32(stft_latency, nlm_latency_samples)]

(***************************************************************************)
(* SpecApi: a caller that creates handles of any family from any           *)
(* arguments, asks for the latency and calls entry points with no handle   *)
(***************************************************************************)
Families == {"manual", "adaptive", "2d"}
SampleRates == {0, 1000, 44100}
FrameSizes == {-8, 0, 8, 11, 20}          \* milliseconds
Envs == [conv : {"saturate", "wrap"}, alloc_ok : BOOLEAN]

Initialize(family, sample_rate, frame_size, env) ==
  CASE family = "manual" -> specbleach_initialize(sample_rate, frame_size, env)
    [] family = "adaptive" ->
         specbleach_adaptive_initialize(sample_rate, frame_size, env)
    [] family = "2d" -> specbleach_2d_initialize(sample_rate, frame_size, env)

GetLatency(family, instance) ==
  CASE family = "manual" -> specbleach_get_latency(instance)
    [] family = "adaptive" -> specbleach_adaptive_get_latency(instance)
    [] family = "2d" -> specbleach_2d_get_latency(instance)

BoolValue(b) == IF b THEN 1 ELSE 0
PointerValue(ptr) == IF ptr = NULL THEN 0 ELSE 1

\* the entry points called with a null handle and otherwise valid arguments
NullHandleOps ==
  {<<"manual", "free">>, <<"manual", "get_latency">>,
   <<"manual", "get_noise_profile_size">>, <<"manual", "reset_noise_profile">>,
   <<"adaptive", "free">>, <<"adaptive", "get_latency">>,
   <<"2d", "free">>, <<"2d", "get_latency">>, <<"2d", "process">>,
   <<"2d", "load_parameters">>, <<"2d", "get_noise_profile_size">>,
   <<"2d", "load_noise_profile_for_mode">>, <<"2d", "reset_noise_profile">>,
   <<"2d", "get_noise_profile_for_mode">>,
   <<"2d", "get_noise_profile_blocks_averaged_for_mode">>,
   <<"2d", "noise_profile_available_for_mode">>}

CallWithNullHandle(o) ==
  LET a == [data |-> Filled(4, RInt(1))]
      returned(v) == [deref |-> FALSE, value |-> v]
  IN CASE o = <<"manual", "free">> -> specbleach_free(NULL)
       [] o = <<"manual", "get_latency">> -> specbleach_get_latency(NULL)
       [] o = <<"manual", "get_noise_profile_size">> ->
            specbleach_get_noise_profile_size(NULL)
       [] o = <<"manual", "reset_noise_profile">> ->
            specbleach_reset_noise_profile(NULL)
       [] o = <<"adaptive", "free">> -> specbleach_adaptive_free(NULL)
       [] o = <<"adaptive", "get_latency">> ->
            specbleach_adaptive_get_latency(NULL)
       [] o = <<"2d", "free">> -> specbleach_2d_free(NULL)
       [] o = <<"2d", "get_latency">> -> specbleach_2d_get_latency(NULL)
       [] o = <<"2d", "process">> ->
            returned(BoolValue(specbleach_2d_process(NULL, 1,
               [data |-> Block(0, 1)], [data |-> << >>]).ret))
       [] o = <<"2d", "load_parameters">> ->
            returned(BoolValue(specbleach_2d_load_parameters(NULL,
               [learn_noise |-> 0, noise_reduction_mode |-> ROLLING_MEAN,
                residual_listen |-> FALSE]).ret))
       [] o = <<"2d", "get_noise_profile_size">> ->
            returned(specbleach_2d_get_noise_profile_size(NULL))
       [] o = <<"2d", "load_noise_profile_for_mode">> ->
            returned(BoolValue(specbleach_2d_load_noise_profile_for_mode(NULL,
               a, 4, 1, ROLLING_MEAN).ret))
       [] o = <<"2d", "reset_noise_profile">> ->
            returned(BoolValue(specbleach_2d_reset_noise_profile(NULL).ret))
       [] o = <<"2d", "get_noise_profile_for_mode">> ->
            returned(PointerValue(
               specbleach_2d_get_noise_profile_for_mode(NULL, ROLLING_MEAN)))
       [] o = <<"2d", "get_noise_profile_blocks_averaged_for_mode">> ->
            returned(specbleach_2d_get_noise_profile_blocks_averaged_for_mode(
               NULL, ROLLING_MEAN))
       [] o = <<"2d", "noise_profile_available_for_mode">> ->
            returned(BoolValue(
               specbleach_2d_noise_profile_available_for_mode(NULL,
                                                              ROLLING_MEAN)))

ApiInit ==
  /\ handle = NULL
  /\ fed = 0
  /\ outs = << >>
  /\ frames = << >>
  /\ loads = 0
  /\ base = [h |-> NULL, fed |-> 0]
  /\ call = [op |-> "none"]

ApiInitialize ==
  \E family \in Families, sample_rate \in SampleRates,
     frame_size \in FrameSizes, env \in Envs :
    /\ handle' = Initialize(family, sample_rate, frame_size, env)
    /\ call' = [op |-> "initialize", family |-> family,
                sample_rate |-> sample_rate, frame_ms |-> frame_size,
                env |-> env]
    /\ UNCHANGED <<fed, outs, frames, loads, base>>

ApiGetLatency ==
  /\ handle # NULL
  /\ call' = [op |-> "get_latency", family |-> handle.family,
              ret |-> GetLatency(handle.family, handle)]
  /\ UNCHANGED <<handle, fed, outs, frames, loads, base>>

ApiNullHandleCall ==
  \E o \in NullHandleOps :
    /\ call' = [op |-> "null_handle_call", family |-> o[1], name |-> o[2],
                ret |-> CallWithNullHandle(o)]
    /\ UNCHANGED <<handle, fed, outs, frames, loads, base>>

ApiNext == ApiInitialize \/ ApiGetLatency \/ ApiNullHandleCall

SpecApi == ApiInit /\ [][ApiNext]_vars

\* C2: get_stft_latency, and so get_latency of the manual and adaptive
\* denoisers, returns frame_samples (one full analysis frame), not
\* frame_samples - hop.
C2_LatencyIsOneFrame ==
  (call.op = "get_latency" /\ call.family \in {"manual", "adaptive"}) =>
    (~call.ret.deref /\ call.ret.value = handle.stft.frame_size)

\* C3: specbleach_2d_get_latency returns frame_samples + T_future * hop,
\* hop being the distance in input samples between two frame callbacks of
\* the STFT frontend of the handle.
C3_Latency2DIsFramePlusLookAhead ==
  (call.op = "get_latency" /\ call.family = "2d") =>
    call.ret.value =
      handle.stft.frame_size + NLM_SEARCH_RANGE_TIME_FUTURE * handle.stft.hop

\* C7: initialize returns a null handle whenever sample_rate is 0 or frame_ms
\* is not greater than 0, in every processor family.
C7_InitializeRefusesBadArguments ==
  (call.op = "initialize" /\ (call.sample_rate = 0 \/ call.frame_ms <= 0)) =>
    handle = NULL

\* C8: every public operation given a null handle returns its failure value
\* (false, 0 or NULL) without dereferencing the handle, and free(NULL) is a
\* no-op, for the manual denoiser as for the 2-D denoiser.
C8_NullHandleCallsFailSafely ==
  (call.op = "null_handle_call" /\ call.family \in {"manual", "2d"}) =>
    (~call.ret.deref /\ call.ret.value = 0)

\* C16: get_noise_profile_size returns real_bins = N/2 + 1, with N the FFT
\* length, for the manual denoiser and for the 2-D denoiser alike.
C16_ProfileSizeIsRealBins ==
  (handle # NULL /\ handle.family \in {"manual", "2d"}) =>
    LET size == IF handle.family = "manual"
                THEN specbleach_get_noise_profile_size(handle).value
                ELSE specbleach_2d_get_noise_profile_size(handle)
    IN size = UDiv(get_stft_fft_size(handle.stft), 2) + 1

(***************************************************************************)
(* SpecFrames: a 2-D handle and a manual denoiser driven frame by frame    *)
(* with the same calls: parameter loads, profile loads, resets, frames.    *)
(*   handle - the 2-D handle        base - the manual handle               *)
(*   fed    - frames run so far     loads - calls made so far              *)
(*   outs   - what touched the profile since it was created or reset       *)
(*   frames - the parameters of the last load_parameters, if any           *)
(***************************************************************************)
\* the packed spectrum of frame n: no bin is zero, no two frames are alike
FrameAt(n, fft_size) ==
  [bins |-> [i \in 0..(fft_size - 1) |-> 1 + n + i], mix |-> "none"]

FrameParameterChoices ==
  [learn_noise : {0, 1}, noise_reduction_mode : {ROLLING_MEAN, MEDIAN, MAX},
   residual_listen : BOOLEAN, adaptive_noise : {0, 1},
   noise_estimation_method : {0}]

\* the array a caller loads: size elements, all different and none zero
LoadedArray(size) == [data |-> [k \in 0..(size - 1) |-> RInt(MaxValue + k)]]

AvailableModes(np) ==
  {m \in 1..NOISE_PROFILE_MODES : is_noise_estimation_available(np, m)}

FramesInit ==
  /\ handle = specbleach_2d_initialize(ProfileConfig.sample_rate,
                                       ProfileConfig.frame_ms, NormalEnv)
  /\ base = specbleach_initialize(ProfileConfig.sample_rate,
                                  ProfileConfig.frame_ms, NormalEnv)
  /\ fed = 0
  /\ outs = << >>
  /\ frames = << >>
  /\ loads = 0
  /\ call = [op |-> "initialize"]

\* the same processor with the other value of residual_listen
ResidualTwin2D(self) == [self EXCEPT !.parameters.residual_listen = ~@]

ResidualTwin(self) == [self EXCEPT !.denoise_parameters.residual_listen = ~@]

\* one frame through both frame callbacks; the same frame is also given to
\* the twin of each processor, whose output is kept beside the real one
RunFrame ==
  /\ fed < MaxFrames
  /\ \E x \in {FrameAt(fed, handle.denoiser.fft_size)} :
     \E r \in {spectral_2d_denoiser_run(handle.denoiser, handle.noise_profile, x)} :
     \E rm \in {spectral_denoiser_run(base.denoiser, base.noise_profile, x)} :
     \E t \in {spectral_2d_denoiser_run(ResidualTwin2D(handle.denoiser),
                                        handle.noise_profile, x).spectrum} :
     \E tm \in {spectral_denoiser_run(ResidualTwin(base.denoiser),
                                      base.noise_profile, x).spectrum} :
       /\ handle' = [handle EXCEPT !.denoiser = r.denoiser,
                                   !.noise_profile = r.profile]
       /\ base' = [base EXCEPT !.denoiser = rm.denoiser,
                               !.noise_profile = rm.profile]
       /\ outs' = Append(outs, IF handle.denoiser.parameters.learn_noise > 0
                               THEN "learn" ELSE "reduce")
       /\ call' = [op |-> "frame",
                   learn_noise |-> handle.denoiser.parameters.learn_noise,
                   manual_learn_noise |-> base.denoiser.denoise_parameters.learn_noise,
                   manual_available |->
                     is_noise_estimation_available(base.noise_profile,
                        base.denoiser.denoise_parameters.noise_reduction_mode),
                   manual_estimator |-> base.denoiser.adaptive_estimator,
                   input |-> x,
                   output |-> r.spectrum,
                   manual_output |-> rm.spectrum,
                   twin_output |-> t,
                   manual_twin_output |-> tm]
  /\ fed' = fed + 1
  /\ UNCHANGED <<frames, loads>>

\* the same parameters to both: through the public load of the 2-D handle,
\* and to the manual denoiser as its DenoiserParameters
FramesLoadParameters ==
  \E p \in FrameParameterChoices :
    /\ loads < MaxCalls
    /\ \E r \in {specbleach_2d_load_parameters(handle, p)} :
         /\ handle' = r.h
         /\ call' = [op |-> "load_parameters", args |-> p, ret |-> r.ret]
    /\ base' = [base EXCEPT !.denoiser = load_reduction_parameters(@, p)]
    /\ frames' = << p >>
    /\ loads' = loads + 1
    /\ UNCHANGED <<fed, outs>>

\* specbleach_2d_load_noise_profile on the 2-D handle
FramesLoadProfile ==
  /\ loads < MaxCalls
  /\ \E size \in {specbleach_2d_get_noise_profile_size(handle)} :
     \E r \in {specbleach_2d_load_noise_profile(handle, LoadedArray(size), size,
                                                MaxValue)} :
       /\ handle' = r.h
       /\ call' = [op |-> "load_noise_profile", ret |-> r.ret,
                   args |-> [array |-> LoadedArray(size), size |-> size,
                             blocks |-> MaxValue]]
  /\ outs' = Append(outs, "load")
  /\ loads' = loads + 1
  /\ UNCHANGED <<base, fed, frames>>

\* a profile for one mode, stored in both
FramesLoadProfileForMode ==
  \E mode \in 1..NOISE_PROFILE_MODES, blocks \in {0, MaxValue} :
    /\ loads < MaxCalls
    /\ \E size \in {specbleach_2d_get_noise_profile_size(handle)} :
       \E r \in {specbleach_2d_load_noise_profile_for_mode(handle,
                     LoadedArray(size), size, blocks, mode)} :
         /\ handle' = r.h
         /\ call' = [op |-> "load_noise_profile_for_mode", ret |-> r.ret,
                     args |-> [array |-> LoadedArray(size), size |-> size,
                               blocks |-> blocks, mode |-> mode]]
    /\ \E size \in {get_noise_profile_size(base.noise_profile)} :
         base' = [base EXCEPT !.noise_profile =
                    set_noise_profile(@, mode, LoadedArray(size), size,
                                      blocks).profile]
    /\ outs' = Append(outs, "load")
    /\ loads' = loads + 1
    /\ UNCHANGED <<fed, frames>>

FramesResetProfile ==
  /\ loads < MaxCalls
  /\ \E r \in {specbleach_2d_reset_noise_profile(handle)} :
       /\ handle' = r.h
       /\ call' = [op |-> "reset_noise_profile", ret |-> r.ret,
                   had |-> AvailableModes(handle.noise_profile),
                   touched |-> outs]
  /\ base' = [base EXCEPT !.noise_profile = reset_noise_profile(@)]
  /\ outs' = << >>
  /\ loads' = loads + 1
  /\ UNCHANGED <<fed, frames>>

FramesNext ==
  \/ RunFrame
  \/ FramesLoadParameters
  \/ FramesLoadProfile
  \/ FramesLoadProfileForMode
  \/ FramesResetProfile

SpecFrames == FramesInit /\ [][FramesNext]_vars

(***************************************************************************)
(* Properties of the noise profile under frames, loads and resets          *)
(* (checked under SpecFrames)                                              *)
(***************************************************************************)
ClearedProfile(np) ==
  \A m \in 1..NOISE_PROFILE_MODES :
    /\ \A k \in DOMAIN get_noise_profile(np, m) :
         get_noise_profile(np, m)[k] = RInt(0)
    /\ get_noise_profile_blocks_averaged(np, m) = 0
    /\ ~is_noise_estimation_available(np, m)

\* C12: reset_noise_profile, called in any state, leaves all three modes with
\* zeroed profile data, blocks_averaged = 0 and available = false.
C12_ResetClearsAllModes ==
  call.op = "reset_noise_profile" =>
    /\ call.ret
    /\ ClearedProfile(handle.noise_profile)
    /\ ClearedProfile(base.noise_profile)

\* a reset made after learning frames had made all three modes available
C12_Witness ==
  /\ call.op = "reset_noise_profile"
  /\ call.had = 1..NOISE_PROFILE_MODES
  /\ \E i \in 1..Len(call.touched) : call.touched[i] = "learn"

\* C13: over any sequence of learning frames, reduction frames, profile loads
\* and parameter loads, once the availability flag of a mode is true it stays
\* true until the next reset_noise_profile call.
C13_AvailableUntilReset ==
  [][call'.op # "reset_noise_profile" =>
       /\ AvailableModes(handle.noise_profile)
            \subseteq AvailableModes(handle'.noise_profile)
       /\ AvailableModes(base.noise_profile)
            \subseteq AvailableModes(base'.noise_profile)]_vars

\* a learning frame run on a rolling mean that is available only because it
\* was loaded: its count is still below the learning threshold
C13_Witness ==
  /\ call.op = "frame" /\ call.learn_noise > 0
  /\ \E i \in 1..Len(outs) : outs[i] = "load"
  /\ ROLLING_MEAN \in AvailableModes(handle.noise_profile)
  /\ get_noise_profile_blocks_averaged(handle.noise_profile, ROLLING_MEAN)
       <= MIN_NUMBER_OF_WINDOWS_NOISE_AVERAGED

\* the profile has seen nothing but learning frames since it was created or
\* last reset; Len(outs) is their number
OnlyLearningFrames == \A i \in 1..Len(outs) : outs[i] = "learn"

\* C14: starting from a freshly initialized or reset profile, after k
\* consecutive learning frames the rolling-mean and median modes are available
\* exactly when k >= 5, and the max mode is available exactly when k >= 1.
C14_AvailabilityAfterLearning ==
  OnlyLearningFrames =>
    \A np \in {handle.noise_profile, base.noise_profile} :
      /\ is_noise_estimation_available(np, ROLLING_MEAN)
           <=> (Len(outs) >= MIN_NUMBER_OF_WINDOWS_NOISE_AVERAGED)
      /\ is_noise_estimation_available(np, MEDIAN)
           <=> (Len(outs) >= MIN_NUMBER_OF_WINDOWS_NOISE_AVERAGED)
      /\ is_noise_estimation_available(np, MAX) <=> (Len(outs) >= 1)

\* C15: each learning frame increases blocks_averaged by exactly 1 for each of
\* the three modes it writes, so after k learning frames from a reset profile
\* all three counts equal k.
C15_CountsAfterLearning ==
  OnlyLearningFrames =>
    \A np \in {handle.noise_profile, base.noise_profile} :
      \A m \in 1..NOISE_PROFILE_MODES :
        get_noise_profile_blocks_averaged(np, m) = Len(outs)

\* C17: whenever specbleach_2d_load_noise_profile returns true, the profile
\* has been stored and the mode-less accessors report it:
\* specbleach_2d_noise_profile_available is true and
\* specbleach_2d_get_noise_profile_blocks_averaged equals the loaded count,
\* for every noise_reduction_mode loaded and before any load_parameters call.
C17_LoadedProfileIsReported ==
  (call.op = "load_noise_profile" /\ call.ret) =>
    /\ specbleach_2d_noise_profile_available(handle)
    /\ specbleach_2d_get_noise_profile_blocks_averaged(handle)
         = call.args.blocks

\* C18: after load_parameters with adaptive_noise = 1, every later
\* non-learning frame takes its noise estimate from the adaptive estimator
\* layered over the manual profile; after load_parameters with
\* adaptive_noise = 0 it uses the manual profile alone.  A denoiser's
\* last_adaptive_state is 1 after a frame of the first kind and 0 after a
\* frame of the second.
C18_AdaptiveNoiseSelectsEstimator ==
  (call.op = "frame" /\ frames # << >> /\ frames[1].learn_noise = 0) =>
    /\ handle.denoiser.last_adaptive_state = frames[1].adaptive_noise
    /\ base.denoiser.last_adaptive_state = frames[1].adaptive_noise

(***************************************************************************)
(* Residual listen against normal output                                   *)
(***************************************************************************)
\* out_a[k] + out_b[k] = in[k] whatever the gain: the two outputs carry the
\* same bins, and in every bin that is not zero the two factors add up to 1
SumsToInput(a, b) ==
  /\ a.bins = b.bins
  /\ \A k \in DOMAIN a.bins :
        \/ a.bins[k] = 0
        \/ /\ MixCoefficient(a.mix)[1] + MixCoefficient(b.mix)[1] = 1
           /\ MixCoefficient(a.mix)[2] + MixCoefficient(b.mix)[2] = 0

C20_NoProfileNoReduction ==
  (call.op = "frame" /\ call.manual_learn_noise = 0 /\ ~call.manual_available) =>
    /\ call.manual_output = call.input
    /\ base.denoiser.adaptive_estimator = call.manual_estimator

(***************************************************************************)
(* The rolling mean of the learning frames                                 *)
(***************************************************************************)
\* sum over the last count frames fed of bin k of their power spectrum
RECURSIVE LearnedSum(_, _, _)
LearnedSum(count, k, fft_size) ==
  IF count = 0 THEN 0
  ELSE get_spectral_feature(FrameAt(fed - count, fft_size).bins, fft_size)[k]
         + LearnedSum(count - 1, k, fft_size)

\* the rolling-mean profile is the arithmetic mean of the Len(outs) frames
\* learned since the profile was created or reset
IsMeanOfLearned(np, real_spectrum_size, fft_size) ==
  \A k \in 0..(real_spectrum_size - 1) :
    get_noise_profile(np, ROLLING_MEAN)[k][1] * Len(outs)
      = LearnedSum(Len(outs), k, fft_size) * get_noise_profile(np, ROLLING_MEAN)[k][2]

\* C27: after k learning frames from a reset profile, the rolling-mean
\* profile holds in every bin of [0, real_bins) the arithmetic mean of those
\* k frames (each frame moving it by (frame - profile) / n, n the count after
\* the update)
C27_RollingMeanIsArithmeticMean ==
  (call.op = "frame" /\ OnlyLearningFrames) =>
    /\ IsMeanOfLearned(base.noise_profile, base.denoiser.real_spectrum_size,
                       base.denoiser.fft_size)
    /\ IsMeanOfLearned(handle.noise_profile, handle.denoiser.real_spectrum_size,
                       handle.denoiser.fft_size)

(***************************************************************************)
(* The delay rings of the 2-D denoiser against the NLM target              *)
(***************************************************************************)
\* C29: whenever the NLM step runs, the FFT frame and the noise estimate read
\* from the delay rings are those of the callback that pushed the NLM target
\* frame: the target SNR frame is the power spectrum of the emitted frame
\* over the delayed noise
C29_DelayRingsMatchTarget ==
  (call.op = "frame" /\ call.learn_noise = 0
     /\ handle.denoiser.snr_frame.smoothed) =>
    /\ handle.denoiser.snr_frame.snr
         = SnrFrame(get_spectral_feature(call.output.bins,
                                         handle.denoiser.fft_size),
                    handle.denoiser.snr_frame.noise)
    /\ call.output.bins # call.input.bins

\* the NLM step ran on a frame whose delayed noise came from a profile
C29_Witness ==
  /\ call.op = "frame" /\ call.learn_noise = 0
  /\ handle.denoiser.snr_frame.smoothed
  /\ call.output.mix # "none"
  /\ \E k \in DOMAIN handle.denoiser.snr_frame.noise :
        RLess(RInt(0), handle.denoiser.snr_frame.noise[k])

(***************************************************************************)
(* SpecNlm: one NLM filter under pushes, process calls and resets          *)
(*   handle - the filter            loads - frames pushed since creation   *)
(*   fed    - frames pushed since creation or the last reset               *)
(*   base   - resets so far         outs  - the caller's smoothed_snr      *)
(* The frame of push number n carries n in every bin, so that a slot of    *)
(* the ring tells which push wrote it.                                     *)
(***************************************************************************)
NlmConfig ==
  [spectrum_size |-> 2,
   time_buffer_size |-> NLM_SEARCH_RANGE_TIME_PAST
                          + NLM_SEARCH_RANGE_TIME_FUTURE + 1,
   patch_size |-> NLM_PATCH_SIZE,
   search_range_time_past |-> NLM_SEARCH_RANGE_TIME_PAST,
   search_range_time_future |-> NLM_SEARCH_RANGE_TIME_FUTURE]

PushedFrame(n, den) ==
  Filled(NlmConfig.spectrum_size, [num |-> n, den |-> RInt(den)])

NlmInit ==
  /\ handle = nlm_filter_initialize(NlmConfig)
  /\ fed = 0
  /\ loads = 0
  /\ base = 0
  /\ outs = Filled(NlmConfig.spectrum_size, ZeroSnr)
  /\ frames = << >>
  /\ call = [op |-> "initialize"]

NlmPush ==
  \E den \in 1..MaxValue :
    /\ loads < MaxPushes
    /\ handle' = nlm_filter_push_frame(handle, PushedFrame(loads + 1, den))
    /\ fed' = fed + 1
    /\ loads' = loads + 1
    /\ call' = [op |-> "push_frame"]
    /\ UNCHANGED <<base, outs, frames>>

\* nlm_filter_process into the caller's array
NlmProcess ==
  /\ \E r \in {nlm_filter_process(handle, outs)} :
       /\ outs' = IF r.ret THEN r.smoothed_snr.target ELSE r.smoothed_snr
       /\ call' = [op |-> "process", ret |-> r.ret, before |-> outs,
                   ready |-> nlm_filter_is_ready(handle)]
  /\ UNCHANGED <<handle, fed, loads, base, frames>>

NlmReset ==
  /\ fed > 0
  /\ handle' = nlm_filter_reset(handle)
  /\ fed' = 0
  /\ base' = base + 1
  /\ call' = [op |-> "reset"]
  /\ UNCHANGED <<loads, outs, frames>>

NlmNext == NlmPush \/ NlmProcess \/ NlmReset

SpecNlm == NlmInit /\ [][NlmNext]_vars

\* C28: the filter is ready, and nlm_filter_process succeeds, exactly when
\* time_buffer_size frames or more were pushed since creation or the last
\* reset; a process call before that returns false and leaves the caller's
\* array as it was
C28_ReadyAfterFullBuffer ==
  /\ nlm_filter_is_ready(handle) <=> fed >= handle.config.time_buffer_size
  /\ call.op = "process" =>
       /\ call.ret <=> fed >= handle.config.time_buffer_size
       /\ call.ret <=> call.ready
       /\ ~call.ret => outs = call.before

\* a process call that succeeded on a buffer filled after a reset
C28_Witness ==
  /\ call.op = "process" /\ call.ret
  /\ base > 0
  /\ fed = handle.config.time_buffer_size

\* C30: during nlm_filter_process every frame access resolves to a slot of
\* the ring and to the frame pushed that many pushes from the target frame,
\* inside the span of T_past frames before and T_future frames after it
C30_AccessesStayInSpan ==
  (call.op = "process" /\ call.ret) =>
    \A o \in ProcessFrameOffsets(handle) :
      /\ get_frame_index(handle, o) \in 0..(handle.config.time_buffer_size - 1)
      /\ o \in (-handle.config.search_range_time_past)
                 ..handle.config.search_range_time_future
      /\ get_frame(handle, o)[0].num
           = loads - handle.config.search_range_time_future + o

(***************************************************************************)
(* The adaptive estimator variants.  An estimator is a record with its     *)
(* kind and the fields of its struct; run returns the estimator and the    *)
(* noise spectrum it wrote.  Spectra given to run are arrays of integers,  *)
(* everything an estimator stores is an exact rational.                    *)
(***************************************************************************)

\* 1e-8, below every frame that is not all zero
ESTIMATOR_SILENCE_THRESHOLD == <<1, 100000000>>
\* stands for FLT_MIN, the smallest positive value a seed is raised to
FLT_MIN == <<1, 100000000>>

RECURSIVE SumTo(_, _)
SumTo(spectrum, k) ==
  IF k < 0 THEN 0 ELSE spectrum[k] + SumTo(spectrum, k - 1)

\* x > ESTIMATOR_SILENCE_THRESHOLD, for x that is not negative
AboveSilence(x) ==
  x[1] > 0 /\ (x[2] < ESTIMATOR_SILENCE_THRESHOLD[2]
               \/ RLess(ESTIMATOR_SILENCE_THRESHOLD, x))

\* frame_energy < ESTIMATOR_SILENCE_THRESHOLD
IsSilent(spectrum, size) ==
  RLess(Rat(SumTo(spectrum, size - 1), size), ESTIMATOR_SILENCE_THRESHOLD)

(***************************************************************************)
(* martin_noise_estimator.c                                                *)
(***************************************************************************)
MARTIN_BIAS_CORR == <<3, 2>>
MARTIN_BIAS_CORR_INV == <<2, 3>>
MARTIN_SMOOTH_ALPHA == <<9, 10>>
MARTIN_SMOOTH_REST == <<1, 10>>

martin_noise_estimator_initialize(noise_spectrum_size) ==
  [kind |-> "martin",
   noise_spectrum_size |-> noise_spectrum_size,
   smoothed_psd |-> Filled(noise_spectrum_size, RInt(0)),
   current_subwin_min |-> Filled(noise_spectrum_size, RInt(0)),
   subwin_history |-> [k \in 0..(noise_spectrum_size - 1) |->
                         Filled(MARTIN_SUBWIN_COUNT, RInt(0))],
   frame_count |-> 0,
   subwin_index |-> 0,
   is_first_frame |-> TRUE]

\* step 4: the minimum over the current sub-window and the history, with the
\* bias correction
MartinOutput(self) ==
  [k \in 0..(self.noise_spectrum_size - 1) |->
     LET Least(S) == CHOOSE v \in S : \A w \in S : RLeq(v, w)
     IN RMul(Least({self.current_subwin_min[k]}
                     \cup {self.subwin_history[k][d] :
                             d \in 0..(MARTIN_SUBWIN_COUNT - 1)}),
             MARTIN_BIAS_CORR)]

\* steps 1 to 3 on a frame that is not silent
MartinUpdate(self, spectrum) ==
  LET Smoothed(psd) ==
        LET Tracked(cur) ==
              IF self.frame_count >= MARTIN_SUBWIN_LEN
              THEN [self EXCEPT
                      !.smoothed_psd = psd,
                      !.subwin_history =
                         [k \in DOMAIN @ |->
                            [@[k] EXCEPT ![self.subwin_index] = cur[k]]],
                      !.current_subwin_min = psd,
                      !.subwin_index = (@ + 1) % MARTIN_SUBWIN_COUNT,
                      !.frame_count = 0]
              ELSE [self EXCEPT !.smoothed_psd = psd,
                                !.current_subwin_min = cur]
        IN Tracked([k \in DOMAIN psd |->
                      RMin(psd[k], self.current_subwin_min[k])])
  IN Smoothed([k \in DOMAIN self.smoothed_psd |->
                 RAdd(RMul(MARTIN_SMOOTH_ALPHA, self.smoothed_psd[k]),
                      RMul(MARTIN_SMOOTH_REST, RInt(spectrum[k])))])

martin_noise_estimator_run(self, spectrum, noise_spectrum) ==
  IF self.is_first_frame
  THEN IF IsSilent(spectrum, self.noise_spectrum_size)
       THEN [self |-> self,
             noise |-> Filled(self.noise_spectrum_size, RInt(0))]
       ELSE [self |-> [self EXCEPT
                         !.smoothed_psd =
                            [k \in DOMAIN @ |->
                               RMul(RInt(spectrum[k]), MARTIN_BIAS_CORR_INV)],
                         !.current_subwin_min =
                            [k \in DOMAIN @ |->
                               RMul(RInt(spectrum[k]), MARTIN_BIAS_CORR_INV)],
                         !.subwin_history =
                            [k \in DOMAIN @ |->
                               Filled(MARTIN_SUBWIN_COUNT,
                                      RMul(RInt(spectrum[k]),
                                           MARTIN_BIAS_CORR_INV))],
                         !.is_first_frame = FALSE,
                         !.frame_count = 1],
             noise |-> [k \in 0..(self.noise_spectrum_size - 1) |->
                          RInt(spectrum[k])]]
  ELSE LET Updated(u) ==
             [self |-> [u EXCEPT !.frame_count = @ + 1],
              noise |-> MartinOutput(u)]
       IN Updated(IF IsSilent(spectrum, self.noise_spectrum_size)
                  THEN self ELSE MartinUpdate(self, spectrum))

martin_noise_estimator_set_state(self, initial_profile) ==
  [self EXCEPT
     !.smoothed_psd =
        [k \in DOMAIN @ |->
           RMul(RMax(initial_profile[k], FLT_MIN), MARTIN_BIAS_CORR_INV)],
     !.current_subwin_min =
        [k \in DOMAIN @ |->
           RMul(RMax(initial_profile[k], FLT_MIN), MARTIN_BIAS_CORR_INV)],
     !.subwin_history =
        [k \in DOMAIN @ |->
           Filled(MARTIN_SUBWIN_COUNT,
                  RMul(RMax(initial_profile[k], FLT_MIN), MARTIN_BIAS_CORR_INV))],
     !.is_first_frame = FALSE,
     !.frame_count = 0]

martin_noise_estimator_update_seed(self, seed_profile) ==
  martin_noise_estimator_set_state(self, seed_profile)

martin_noise_estimator_apply_floor(self, floor_profile) ==
  [self EXCEPT
     !.smoothed_psd = [k \in DOMAIN @ |-> RMax(@[k], floor_profile[k])],
     !.current_subwin_min = [k \in DOMAIN @ |-> RMax(@[k], floor_profile[k])],
     !.subwin_history =
        [k \in DOMAIN @ |->
           [d \in DOMAIN @[k] |-> RMax(@[k][d], floor_profile[k])]]]

(***************************************************************************)
(* spp_mmse_noise_estimator.c                                              *)
(***************************************************************************)
SPP_ALPHA_POW == <<4, 5>>
SPP_ALPHA_REST == <<1, 5>>
SPP_SMOOTH_SPP == <<9, 10>>
SPP_CURRENT_SPP == <<1, 10>>
SPP_STAGNATION_CAP == <<99, 100>>

\* 1 / (1 + (1 + xi) * exp(-ratio * xi / (1 + xi))) with xi = 31.62 rises
\* from 0.03 at ratio 0 through 0.18, 0.60 and 0.99 at ratios 2, 4 and 8;
\* the model carries it as the step function through those ratios
compute_spp_probability(observation_power, previous_noise_psd) ==
  LET Reaches(n) == RLeq(RMul(RInt(n), previous_noise_psd),
                         RInt(observation_power))
  IN IF observation_power = 0 THEN RInt(0)
     ELSE IF Reaches(8) THEN ROne
     ELSE IF Reaches(4) THEN <<3, 4>>
     ELSE IF Reaches(2) THEN <<1, 4>>
     ELSE RInt(0)

compute_mmse_noise_estimate(spp_h1, spp_h0, observation_power, previous_noise_psd) ==
  RAdd(RMul(spp_h0, RInt(observation_power)), RMul(spp_h1, previous_noise_psd))

spp_mmse_noise_estimator_initialize(noise_spectrum_size) ==
  [kind |-> "spp_mmse",
   noise_spectrum_size |-> noise_spectrum_size,
   spp_previous_noise_psd |-> Filled(noise_spectrum_size, RInt(0)),
   spp_smoothed_spp |-> Filled(noise_spectrum_size, RInt(0)),
   is_first_frame |-> TRUE]

\* the probability used for bin k, after the stagnation cap
SppH1(self, spectrum, k) ==
  IF RLess(SPP_STAGNATION_CAP, self.spp_smoothed_spp[k])
  THEN RMin(compute_spp_probability(spectrum[k], self.spp_previous_noise_psd[k]),
            SPP_STAGNATION_CAP)
  ELSE compute_spp_probability(spectrum[k], self.spp_previous_noise_psd[k])

spp_mmse_noise_estimator_run(self, spectrum, noise_spectrum) ==
  IF self.is_first_frame
  THEN IF IsSilent(spectrum, self.noise_spectrum_size)
       THEN [self |-> self,
             noise |-> Filled(self.noise_spectrum_size, RInt(0))]
       ELSE [self |-> [self EXCEPT
                         !.spp_previous_noise_psd =
                            [k \in DOMAIN @ |-> RInt(spectrum[k])],
                         !.spp_smoothed_spp = [k \in DOMAIN @ |-> RInt(0)],
                         !.is_first_frame = FALSE],
             noise |-> [k \in 0..(self.noise_spectrum_size - 1) |->
                          RInt(spectrum[k])]]
  ELSE IF IsSilent(spectrum, self.noise_spectrum_size)
  THEN [self |-> self, noise |-> self.spp_previous_noise_psd]
  ELSE LET Estimated(noise) ==
             [self |-> [self EXCEPT
                          !.spp_previous_noise_psd = noise,
                          !.spp_smoothed_spp =
                             [k \in DOMAIN @ |->
                                RAdd(RMul(SPP_SMOOTH_SPP, @[k]),
                                     RMul(SPP_CURRENT_SPP,
                                          SppH1(self, spectrum, k)))]],
              noise |-> noise]
       IN Estimated(
            [k \in 0..(self.noise_spectrum_size - 1) |->
               RAdd(RMul(SPP_ALPHA_POW, self.spp_previous_noise_psd[k]),
                    RMul(SPP_ALPHA_REST,
                         compute_mmse_noise_estimate(
                            SppH1(self, spectrum, k),
                            RAdd(ROne, RMul(RInt(-1), SppH1(self, spectrum, k))),
                            spectrum[k], self.spp_previous_noise_psd[k])))])

spp_mmse_noise_estimator_set_state(self, initial_profile) ==
  [self EXCEPT
     !.spp_previous_noise_psd =
        [k \in DOMAIN @ |-> RMax(initial_profile[k], FLT_MIN)],
     !.spp_smoothed_spp = [k \in DOMAIN @ |-> RInt(0)],
     !.is_first_frame = FALSE]

\* as set_state, but is_first_frame is left as it was
spp_mmse_noise_estimator_update_seed(self, seed_profile) ==
  [self EXCEPT
     !.spp_previous_noise_psd =
        [k \in DOMAIN @ |-> RMax(seed_profile[k], FLT_MIN)],
     !.spp_smoothed_spp = [k \in DOMAIN @ |-> RInt(0)]]

spp_mmse_noise_estimator_apply_floor(self, floor_profile) ==
  [self EXCEPT
     !.spp_previous_noise_psd =
        [k \in DOMAIN @ |-> RMax(@[k], floor_profile[k])]]

(***************************************************************************)
(* brandt_noise_estimator.c                                                *)
(* calculate_correction_factor(p) = 1 / (1 + (1 - p) / p * ln(1 - p)) is    *)
(* 19.3 for the default percentile 0.1 and 3.26 for 0.5; the model carries *)
(* 19 and 1 / 0.3.  Of the five candidate percentiles of a run the model   *)
(* keeps the last (p = 1: the mean of the whole history, factor 1), and    *)
(* whether the confidence test accepts it is an input of the run.          *)
(***************************************************************************)
BRANDT_CORRECTION_INV == <<1, 19>>
BRANDT_FIRST_FRAME_INV == <<3, 10>>

\* 1 + 0.01 * (((t + k) % 11) - 5) / 5
BrandtJitter(t, k) == Rat(500 + (((t + k) % 11) - 5), 500)

brandt_noise_estimator_initialize(spectrum_size) ==
  [kind |-> "brandt",
   noise_spectrum_size |-> spectrum_size,
   history_size |-> BrandtHistory,
   history_index |-> 0,
   history_buffer |-> [k \in 0..(spectrum_size - 1) |->
                         Filled(BrandtHistory, RInt(0))],
   last_noise_spectrum |-> Filled(spectrum_size, RInt(0)),
   is_first_frame |-> TRUE]

\* history filled with val * jitter, last_noise_spectrum with the profile
BrandtFill(self, profile, inverse_factor) ==
  [self EXCEPT
     !.history_buffer =
        [k \in DOMAIN @ |->
           [t \in DOMAIN @[k] |->
              RMul(RMul(profile[k], inverse_factor), BrandtJitter(t, k))]],
     !.last_noise_spectrum = profile,
     !.is_first_frame = FALSE]

RECURSIVE RSumTo(_, _)
RSumTo(column, t) ==
  IF t < 0 THEN RInt(0) ELSE RAdd(column[t], RSumTo(column, t - 1))

\* the frame enters the history; a bin the confidence test accepts takes
\* the mean of its history
BrandtTrack(self, spectrum, confident) ==
  LET Stored(h) ==
        LET Committed(last) ==
              [self |-> [self EXCEPT
                           !.history_buffer = h,
                           !.history_index = (@ + 1) % self.history_size,
                           !.last_noise_spectrum = last],
               noise |-> last]
        IN Committed(
             [k \in DOMAIN self.last_noise_spectrum |->
                IF confident
                   /\ AboveSilence(RMul(RSumTo(h[k], self.history_size - 1),
                                        Rat(1, self.history_size)))
                THEN RMul(RSumTo(h[k], self.history_size - 1),
                          Rat(1, self.history_size))
                ELSE self.last_noise_spectrum[k]])
  IN Stored([k \in DOMAIN self.history_buffer |->
               [self.history_buffer[k] EXCEPT
                  ![self.history_index] = RInt(spectrum[k])]])

brandt_noise_estimator_run(self, spectrum, noise_spectrum, confident) ==
  IF IsSilent(spectrum, self.noise_spectrum_size)
  THEN [self |-> self, noise |-> self.last_noise_spectrum]
  ELSE IF self.is_first_frame
  THEN BrandtTrack(BrandtFill(self,
                              [k \in DOMAIN self.last_noise_spectrum |->
                                 RInt(spectrum[k])],
                              BRANDT_FIRST_FRAME_INV),
                   spectrum, confident)
  ELSE BrandtTrack(self, spectrum, confident)

brandt_noise_estimator_set_state(self, initial_profile) ==
  BrandtFill(self, initial_profile, BRANDT_CORRECTION_INV)

brandt_noise_estimator_update_seed(self, seed_profile) ==
  [brandt_noise_estimator_set_state(self, seed_profile)
     EXCEPT !.is_first_frame = FALSE]

\* the history is raised to floor / correction factor; last_noise_spectrum
\* is not touched
brandt_noise_estimator_apply_floor(self, floor_profile) ==
  [self EXCEPT
     !.history_buffer =
        [k \in DOMAIN @ |->
           [t \in DOMAIN @[k] |->
              RMax(@[k][t], RMul(floor_profile[k], BRANDT_CORRECTION_INV))]]]

(***************************************************************************)
(* SpecEstimators: one adaptive estimator of either kind under run,        *)
(* set_state, update_seed and apply_floor                                  *)
(*   handle - the estimator         loads - calls made so far              *)
(*   fed    - runs on a frame that is not silent                           *)
(*   outs   - the caller's noise_spectrum array                            *)
(***************************************************************************)
EstimatorSize == 2
EstimatorKinds == {"spp_mmse", "brandt", "martin"}

EstimatorInitialize(kind) ==
  CASE kind = "spp_mmse" -> spp_mmse_noise_estimator_initialize(EstimatorSize)
    [] kind = "brandt" -> brandt_noise_estimator_initialize(EstimatorSize)
    [] kind = "martin" -> martin_noise_estimator_initialize(EstimatorSize)

EstimatorRun(self, spectrum, noise_spectrum, confident) ==
  CASE self.kind = "spp_mmse" ->
         spp_mmse_noise_estimator_run(self, spectrum, noise_spectrum)
    [] self.kind = "brandt" ->
         brandt_noise_estimator_run(self, spectrum, noise_spectrum, confident)
    [] self.kind = "martin" ->
         martin_noise_estimator_run(self, spectrum, noise_spectrum)

EstimatorSetState(self, initial_profile) ==
  CASE self.kind = "spp_mmse" ->
         spp_mmse_noise_estimator_set_state(self, initial_profile)
    [] self.kind = "brandt" ->
         brandt_noise_estimator_set_state(self, initial_profile)
    [] self.kind = "martin" ->
         martin_noise_estimator_set_state(self, initial_profile)

EstimatorUpdateSeed(self, seed_profile) ==
  CASE self.kind = "spp_mmse" ->
         spp_mmse_noise_estimator_update_seed(self, seed_profile)
    [] self.kind = "brandt" ->
         brandt_noise_estimator_update_seed(self, seed_profile)
    [] self.kind = "martin" ->
         martin_noise_estimator_update_seed(self, seed_profile)

EstimatorApplyFloor(self, floor_profile) ==
  CASE self.kind = "spp_mmse" ->
         spp_mmse_noise_estimator_apply_floor(self, floor_profile)
    [] self.kind = "brandt" ->
         brandt_noise_estimator_apply_floor(self, floor_profile)
    [] self.kind = "martin" ->
         martin_noise_estimator_apply_floor(self, floor_profile)

\* the frames an estimator is run on: a silent one and two that are not
EstimatorSpectra ==
  {[k \in 0..(EstimatorSize - 1) |-> 0],
   [k \in 0..(EstimatorSize - 1) |-> IF k = 0 THEN 4 ELSE 2],
   [k \in 0..(EstimatorSize - 1) |-> IF k = 0 THEN 1 ELSE 3]}

\* the profiles given as seed, state or floor
EstimatorProfiles ==
  {[k \in 0..(EstimatorSize - 1) |-> RInt(2)],
   [k \in 0..(EstimatorSize - 1) |-> RInt(IF k = 0 THEN 3 ELSE 1)]}

EstimatorsInit ==
  /\ \E kind \in EstimatorKinds : handle = EstimatorInitialize(kind)
  /\ fed = 0
  /\ loads = 0
  /\ base = 0
  /\ outs = Filled(EstimatorSize, RInt(0))
  /\ frames = << >>
  /\ call = [op |-> "initialize"]

EstimatorRunFrame ==
  \E spectrum \in EstimatorSpectra, confident \in BOOLEAN :
    /\ loads < MaxEstimatorOps
    /\ IsSilent(spectrum, EstimatorSize) \/ fed < MaxRuns
    /\ confident \/ handle.kind = "brandt"
    /\ \E r \in {EstimatorRun(handle, spectrum, outs, confident)} :
         /\ handle' = r.self
         /\ outs' = r.noise
    /\ fed' = IF IsSilent(spectrum, EstimatorSize) THEN fed ELSE fed + 1
    /\ loads' = loads + 1
    /\ call' = [op |-> "run", input |-> spectrum,
                silent |-> IsSilent(spectrum, EstimatorSize),
                before |-> handle, previous |-> outs, after |-> call.op]
    /\ UNCHANGED <<base, frames>>

\* update_seed; the record keeps what set_state would have left
EstimatorSeed ==
  \E profile \in EstimatorProfiles :
    /\ loads < MaxEstimatorOps
    /\ handle' = EstimatorUpdateSeed(handle, profile)
    /\ loads' = loads + 1
    /\ call' = [op |-> "update_seed", profile |-> profile, before |-> handle,
                as_set_state |-> EstimatorSetState(handle, profile)]
    /\ UNCHANGED <<fed, base, outs, frames>>

EstimatorState ==
  \E profile \in EstimatorProfiles :
    /\ loads < MaxEstimatorOps
    /\ handle' = EstimatorSetState(handle, profile)
    /\ loads' = loads + 1
    /\ call' = [op |-> "set_state", profile |-> profile, before |-> handle]
    /\ UNCHANGED <<fed, base, outs, frames>>

EstimatorFloor ==
  \E profile \in EstimatorProfiles :
    /\ loads < MaxEstimatorOps
    /\ handle' = EstimatorApplyFloor(handle, profile)
    /\ loads' = loads + 1
    /\ call' = [op |-> "apply_floor", profile |-> profile, before |-> handle]
    /\ UNCHANGED <<fed, base, outs, frames>>

EstimatorsNext ==
  \/ EstimatorRunFrame
  \/ EstimatorSeed
  \/ EstimatorState
  \/ EstimatorFloor

SpecEstimators == EstimatorsInit /\ [][EstimatorsNext]_vars

\* C23: update_seed(p) leaves each estimator in the state set_state(p) would
\* have left, from any prior state, so the next run gives the same output
\* after either call
C23_UpdateSeedIsSetState ==
  call.op = "update_seed" =>
    /\ handle = call.as_set_state
    /\ \A spectrum \in EstimatorSpectra, confident \in BOOLEAN :
         EstimatorRun(handle, spectrum, outs, confident).noise
           = EstimatorRun(call.as_set_state, spectrum, outs, confident).noise

\* what a run on a silent frame would hand out now: the current output
EstimatorOutput(self) ==
  CASE self.kind = "spp_mmse" -> self.spp_previous_noise_psd
    [] self.kind = "brandt" -> self.last_noise_spectrum
    [] self.kind = "martin" -> MartinOutput(self)

\* every value the estimator stores for bin k
EstimatorHistory(self, k) ==
  CASE self.kind = "spp_mmse" -> {self.spp_previous_noise_psd[k]}
    [] self.kind = "brandt" ->
         {self.history_buffer[k][t] : t \in DOMAIN self.history_buffer[k]}
    [] self.kind = "martin" ->
         {self.smoothed_psd[k], self.current_subwin_min[k]}
           \cup {self.subwin_history[k][d] : d \in DOMAIN self.subwin_history[k]}

\* C24: right after apply_floor(floor), every stored history element and the
\* current output of bin k are at least floor[k], for each estimator
C24_FloorBoundsHistoryAndOutput ==
  call.op = "apply_floor" =>
    \A k \in 0..(EstimatorSize - 1) :
      /\ \A v \in EstimatorHistory(handle, k) : RLeq(call.profile[k], v)
      /\ RLeq(call.profile[k], EstimatorOutput(handle)[k])

\* C25: in the minimum-statistics estimator a silent frame after the first
\* gives the output of the previous frame and leaves the whole state as it
\* was: smoothed PSD, sub-window minimum, history, frame counter, sub-window
\* index
C25_SilentFrameFreezesMartin ==
  (call.op = "run" /\ handle.kind = "martin" /\ call.silent
     /\ ~call.before.is_first_frame /\ call.after = "run") =>
    /\ outs = call.previous
    /\ handle = call.before

\* C26: on every frame and for every bin the output of the
\* minimum-statistics estimator is no greater than its smoothed PSD
C26_MartinOutputBelowSmoothedPsd ==
  (call.op = "run" /\ handle.kind = "martin") =>
    \A k \in 0..(EstimatorSize - 1) : RLeq(outs[k], handle.smoothed_psd[k])

(***************************************************************************)
(* adaptive_denoiser.c: the estimator of the adaptive denoiser.            *)
(***************************************************************************)
\* adaptive_noise_estimator.h
SPP_MMSE_METHOD == 0
BRANDT_METHOD == 1
MARTIN_METHOD == 2

\* adaptive_noise_estimator.c, lines 281-331: no silence gate
spp_mmse_estimator_run(self, spectrum) ==
  IF self.is_first_frame
  THEN LET first == [k \in 0..(self.noise_spectrum_size - 1) |-> RInt(spectrum[k])]
       IN [self |-> [self EXCEPT !.spp_previous_noise_psd = first,
                                 !.spp_smoothed_spp = [k \in DOMAIN @ |-> RInt(0)],
                                 !.previous_noise_spectrum = first,
                                 !.is_first_frame = FALSE],
           noise |-> first]
  ELSE LET Estimated(noise) ==
             [self |-> [self EXCEPT
                          !.spp_previous_noise_psd = noise,
                          !.spp_smoothed_spp =
                             [k \in DOMAIN @ |->
                                RAdd(RMul(SPP_SMOOTH_SPP, @[k]),
                                     RMul(SPP_CURRENT_SPP,
                                          SppH1(self, spectrum, k)))],
                          !.previous_noise_spectrum = noise],
              noise |-> noise]
       IN Estimated(
            [k \in 0..(self.noise_spectrum_size - 1) |->
               RAdd(RMul(SPP_ALPHA_POW, self.spp_previous_noise_psd[k]),
                    RMul(SPP_ALPHA_REST,
                         compute_mmse_noise_estimate(
                            SppH1(self, spectrum, k),
                            RSub(ROne, SppH1(self, spectrum, k)),
                            spectrum[k], self.spp_previous_noise_psd[k])))])

load_adaptive_reduction_parameters(self, parameters) ==
  LET method_changed == self.parameters.noise_estimation_method
                          # parameters.noise_estimation_method
  IN [self EXCEPT
        !.parameters = parameters,
        !.adaptive_estimator =
           IF method_changed /\ @ # NULL
           THEN IF parameters.noise_estimation_method = SPP_MMSE_METHOD
                THEN spp_mmse_estimator_initialize(self.real_spectrum_size)
                ELSE louizou_estimator_initialize(self.real_spectrum_size)
           ELSE @]

\* the run function that lines 296-302 hand the estimator to
AdaptiveRunFunction(self) ==
  IF self.parameters.noise_estimation_method = SPP_MMSE_METHOD
  THEN "spp_mmse" ELSE "louizou"

spectral_adaptive_denoiser_run(self, fft_spectrum) ==
  LET reference_spectrum == get_spectral_feature(fft_spectrum.bins, self.fft_size)
      Estimated(r) ==
        [denoiser |-> [self EXCEPT !.adaptive_estimator = r.self,
                                   !.noise_profile = r.noise],
         spectrum |-> denoise_mixer_run(fft_spectrum, self.parameters)]
  IN IF AdaptiveRunFunction(self) = "spp_mmse"
     THEN Estimated(spp_mmse_estimator_run(self.adaptive_estimator,
                                           reference_spectrum))
     ELSE Estimated(louizou_estimator_run(self.adaptive_estimator,
                                          reference_spectrum))

(***************************************************************************)
(* SpecAdaptive: one adaptive denoiser, its parameters loaded and frames   *)
(* run in any order.                                                       *)
(*   handle - the SpectralAdaptiveDenoiser                                 *)
(*   loads  - load_adaptive_reduction_parameters calls                     *)
(*   fed    - frames run                                                   *)
(*   outs   - the spectrum the last frame was turned into                  *)
(*   frames - the parameters of the last load, if any                      *)
(***************************************************************************)
AdaptiveFftSize == 2

AdaptiveParameterChoices ==
  [noise_estimation_method : {SPP_MMSE_METHOD, BRANDT_METHOD, MARTIN_METHOD},
   residual_listen : BOOLEAN]

\* packed spectra of the frames: loud, quiet, and loud again in one bin
AdaptiveFrames ==
  {[bins |-> [i \in 0..(AdaptiveFftSize - 1) |-> 2], mix |-> "none"],
   [bins |-> [i \in 0..(AdaptiveFftSize - 1) |-> 1], mix |-> "none"],
   [bins |-> [i \in 0..(AdaptiveFftSize - 1) |-> IF i = 0 THEN 3 ELSE 1],
    mix |-> "none"]}

AdaptiveInit ==
  /\ handle = spectral_adaptive_denoiser_initialize(44100, AdaptiveFftSize,
                                                    OVERLAP_FACTOR_SPEECH, TRUE)
  /\ fed = 0
  /\ loads = 0
  /\ base = 0
  /\ outs = <<>>
  /\ frames = NULL
  /\ call = [op |-> "initialize"]

AdaptiveLoadParameters ==
  \E parameters \in AdaptiveParameterChoices :
    /\ loads < MaxLoads
    /\ handle' = load_adaptive_reduction_parameters(handle, parameters)
    /\ loads' = loads + 1
    /\ frames' = parameters
    /\ call' = [op |-> "load_parameters", before |-> handle]
    /\ UNCHANGED <<fed, base, outs>>

\* every value the estimator keeps has a denominator within MaxDenominator
WithinPrecision(estimator) ==
  \A k \in 0..(estimator.noise_spectrum_size - 1) :
    /\ estimator.smoothed_spectrum[k][2] <= MaxDenominator
    /\ estimator.local_minimum_spectrum[k][2] <= MaxDenominator
    /\ estimator.speech_present_probability_spectrum[k][2] <= MaxDenominator
    /\ estimator.previous_noise_spectrum[k][2] <= MaxDenominator
    /\ estimator.spp_previous_noise_psd[k][2] <= MaxDenominator
    /\ estimator.spp_smoothed_spp[k][2] <= MaxDenominator

AdaptiveRunFrame ==
  \E fft_spectrum \in AdaptiveFrames :
    /\ fed < MaxRuns
    /\ WithinPrecision(handle.adaptive_estimator)
    /\ \E r \in {spectral_adaptive_denoiser_run(handle, fft_spectrum)} :
         /\ handle' = r.denoiser
         /\ outs' = r.spectrum
    /\ fed' = fed + 1
    /\ call' = [op |-> "run", before |-> handle,
                estimator_run |-> AdaptiveRunFunction(handle)]
    /\ UNCHANGED <<loads, base, frames>>

AdaptiveNext ==
  \/ AdaptiveLoadParameters
  \/ AdaptiveRunFrame

SpecAdaptive == AdaptiveInit /\ [][AdaptiveNext]_vars

\* the estimator named by a noise_estimation_method value
MethodEstimator(method) ==
  CASE method = SPP_MMSE_METHOD -> "spp_mmse"
    [] method = BRANDT_METHOD -> "brandt"
    [] method = MARTIN_METHOD -> "martin"

\* C22: on every frame the adaptive denoiser runs the estimator of the
\* noise_estimation_method most recently loaded (0 SPP-MMSE, 1 trimmed-mean,
\* 2 minimum-statistics); before any load the method is 0
C22_RunsRequestedMethod ==
  call.op = "run" =>
    call.estimator_run = MethodEstimator(handle.parameters.noise_estimation_method)

(***************************************************************************)
(* SpecSeeding: the manual denoiser with its adaptive layer, parameters    *)
(* loaded and frames run in any order.                                     *)
(*   handle - the manual handle (denoiser and noise profile)               *)
(*   loads  - load_reduction_parameters calls                              *)
(*   fed    - frames run                                                   *)
(*   outs   - the events since the adaptive estimator last ran: "on"       *)
(*            (adaptive_noise loaded on after off), "mode"                 *)
(*            (noise_reduction_mode changed with adaptive on before and    *)
(*            after), "rebuilt" (the estimator replaced by one of another  *)
(*            method)                                                      *)
(*   frames - the parameters of the last load, if any                      *)
(* call.learned_since tells whether a learning frame ran since the         *)
(* estimator last ran; a frame records in learned what it was before it.   *)
(***************************************************************************)
SeedingParameterChoices ==
  [learn_noise : {0, 1}, noise_reduction_mode : {ROLLING_MEAN, MEDIAN},
   residual_listen : {FALSE}, adaptive_noise : {0, 1},
   noise_estimation_method : {SPP_MMSE_METHOD, BRANDT_METHOD}]

SeedingInit ==
  /\ handle = specbleach_initialize(ProfileConfig.sample_rate,
                                    ProfileConfig.frame_ms, NormalEnv)
  /\ fed = 0
  /\ loads = 0
  /\ base = 0
  /\ outs = {}
  /\ frames = << >>
  /\ call = [op |-> "initialize", learned_since |-> FALSE]

\* the events a load of p brings about
LoadEvents(self, p) ==
  LET old == self.denoise_parameters
  IN {e \in {"on", "mode", "rebuilt"} :
        \/ e = "on" /\ old.adaptive_noise = 0 /\ p.adaptive_noise # 0
        \/ e = "mode" /\ old.adaptive_noise # 0 /\ p.adaptive_noise # 0
                      /\ old.noise_reduction_mode # p.noise_reduction_mode
        \/ e = "rebuilt" /\ self.adaptive_estimator # NULL
                         /\ load_reduction_parameters(self, p).adaptive_estimator
                               # self.adaptive_estimator}

\* the frame runs the adaptive estimator
EstimatorRuns(self) ==
  /\ self.denoise_parameters.learn_noise = 0
  /\ self.denoise_parameters.adaptive_noise # 0
  /\ self.adaptive_estimator # NULL

SeedingLoadParameters ==
  \E p \in SeedingParameterChoices :
    /\ loads < MaxEstimatorOps
    /\ handle' = [handle EXCEPT !.denoiser = load_reduction_parameters(@, p)]
    /\ outs' = outs \cup LoadEvents(handle.denoiser, p)
    /\ frames' = << p >>
    /\ loads' = loads + 1
    /\ call' = [op |-> "load_parameters", args |-> p,
                learned_since |-> call.learned_since]
    /\ UNCHANGED <<fed, base>>

SeedingRunFrame ==
  /\ fed < MaxRuns
  /\ \E x \in {FrameAt(fed, handle.denoiser.fft_size)} :
     \E r \in {spectral_denoiser_run(handle.denoiser, handle.noise_profile, x)} :
       /\ handle' = [handle EXCEPT !.denoiser = r.denoiser,
                                   !.noise_profile = r.profile]
       /\ call' = [op |-> "frame",
                   learn_noise |-> handle.denoiser.denoise_parameters.learn_noise,
                   estimator_ran |-> EstimatorRuns(handle.denoiser),
                   reseeded |-> EstimatorRuns(handle.denoiser)
                                  /\ ManualReseeds(handle.denoiser),
                   events |-> outs,
                   learned |-> call.learned_since,
                   learned_since |->
                     IF EstimatorRuns(handle.denoiser) THEN FALSE
                     ELSE handle.denoiser.denoise_parameters.learn_noise > 0
                          \/ call.learned_since]
  /\ outs' = IF EstimatorRuns(handle.denoiser) THEN {} ELSE outs
  /\ fed' = fed + 1
  /\ UNCHANGED <<loads, base, frames>>

SeedingNext ==
  \/ SeedingLoadParameters
  \/ SeedingRunFrame

SpecSeeding == SeedingInit /\ [][SeedingNext]_vars

\* C21: a frame that runs the adaptive estimator re-seeds it first exactly
\* when, since the estimator last ran, adaptive went from off to on, the
\* mode changed while adaptive was on, or the estimator was rebuilt for
\* another method
C21_ReseededExactlyAfterEvents ==
  (call.op = "frame" /\ call.estimator_ran) =>
    (call.reseeded <=> call.events # {})

====
